---- MODULE Spec2Model ----
(***************************************************************************)
(* State-machine model of the canvas fireworks script (fireworks.js).      *)
(*                                                                         *)
(* Units.  Times are integer milliseconds.  quality and every value        *)
(* derived from lerp over it are in 1/10000 (MAX_QUALITY = 10000 is 1.0).  *)
(* The smoothed FPS is in 1/1000 frames per second.  Positions are whole   *)
(* pixels, velocities px/s, accelerations px/s^2.  life/maxLife, size,     *)
(* heat, the per-particle multipliers and the wind are in 1/1000.  Angles  *)
(* are milliradians.  The simulation step dt is kept in milliseconds       *)
(* (0.033 s is 33).                                                        *)
(*                                                                         *)
(* Math.random() is a generator with a state (rng): the page loads with    *)
(* any seed, a handler that may draw reads its draws off the state and     *)
(* leaves the generator in its next state.                                 *)
(***************************************************************************)
EXTENDS Integers, Sequences, FiniteSets, TLC

VARIABLES
    host,                   \* host capabilities when the script ran: canvas element, reduced motion, 2D context
    wired,                  \* the api object holds the real handlers (script ran past its early returns)
    inited, running,
    hidden, heroRect, sfxEnabled, now,     \* host environment: document.hidden, hero box, window.sfxEnabled, performance.now()
    w, h,
    rafQueue, stepRafId, launchRafId,      \* pending animation-frame callbacks and the two handles
    timers,                                \* pending setTimeout callbacks
    lastTs, lastLaunch, ignoreClicksUntil, smokeParity,
    fpsSmoothed, quality, lastQualityTs, lastResizeQualityCheck,
    currentWind,
    rockets, particles, smokePuffs,
    rocketPool, particlePool, smokePool,
    audioUnlocked, lastPopMs, popIndex,
    rng,                    \* state of the host's Math.random() generator
    op,                     \* history: the handler that ran last
    lastDt,                 \* history: dt (ms) of the last simulation tick
    firstTick,              \* history: no tick has run since the last start()/resume()
    created,                \* history: the records put into a live collection by the last handler, as pushed, and the patterns of the explodeBurst calls
    lastFrame,              \* history: time of the last frame delivery
    nTicks, nEvents,        \* history: time advances / host events so far
    hist,                   \* history: times of the last start(), and of pause() and resume() since; rockets of autoLaunch since; stop() since
    page                    \* script.js: its state object, the elements it found, localStorage and the parts of the document it writes

vars == << host, wired, inited, running, hidden, heroRect, sfxEnabled, now, w, h,
           rafQueue, stepRafId, launchRafId, timers,
           lastTs, lastLaunch, ignoreClicksUntil, smokeParity,
           fpsSmoothed, quality, lastQualityTs, lastResizeQualityCheck,
           currentWind, rockets, particles, smokePuffs,
           rocketPool, particlePool, smokePool,
           audioUnlocked, lastPopMs, popIndex,
           rng, op, lastDt, firstTick, created, lastFrame, nTicks, nEvents, hist,
           page >>

-----------------------------------------------------------------------------
(* Bounds of the model *)

MaxTicks == 2
MaxEvents == 2

-----------------------------------------------------------------------------
(* Program constants *)

null == -1

LOWER_LINE_TARGET_FIREWORKS == 45
UPPER_LINE_TARGET_FIREWORKS == 75
gravity == 650
airDrag == 9
BASE_MAX_ROCKETS == 2
BASE_MAX_PARTICLES == 50
BASE_MAX_SMOKE == 28
IGNORE_CLICKS_MS == 600
RESUME_IGNORE_CLICKS_MS == 250
AUTO_BASE_DESKTOP == 1050
AUTO_BASE_MOBILE == 1600
TARGET_FPS == 60000
MIN_QUALITY == 5500
MAX_QUALITY == 10000
FPS_EMA == 8
QUALITY_EMA == 45
RESIZE_CHECK_MS == 1200
DT_MAX == 33
POP_GAP_MS == 120
PopPoolLen == 2

-----------------------------------------------------------------------------
(* Helpers *)

Min(a, b) == IF a < b THEN a ELSE b
Max(a, b) == IF a > b THEN a ELSE b
Abs(a) == IF a < 0 THEN -a ELSE a

clamp(n, lo, hi) == Max(lo, Min(hi, n))

\* lerp(a, b, t) = a + (b - a) * t, with t in 1/10000
lerp(a, b, t) == a + ((b - a) * t) \div MAX_QUALITY

\* Math.round of n/d for n, d > 0
RoundDiv(n, d) == (2 * n + d) \div (2 * d)

\* 10000 * (k/60)^0.78 for whole k = 0..60
PowTable ==
    << 0, 410, 704, 966, 1210, 1440, 1660, 1872, 2077, 2277, 2472, 2663, 2850,
       3033, 3214, 3392, 3567, 3739, 3910, 4078, 4245, 4409, 4572, 4734, 4893,
       5052, 5209, 5364, 5519, 5672, 5824, 5975, 6124, 6273, 6421, 6568, 6714,
       6859, 7003, 7146, 7289, 7430, 7571, 7712, 7851, 7990, 8128, 8266, 8403,
       8539, 8674, 8809, 8944, 9078, 9211, 9344, 9476, 9608, 9739, 9870, 10000 >>

\* Math.pow(fps / TARGET_FPS, 0.78) for 0 <= fps <= TARGET_FPS (1/1000 fps),
\* by linear interpolation between whole frame rates
Pow078(fps) ==
    LET k == fps \div 1000
        f == fps % 1000
    IN  IF k >= 60 THEN PowTable[61]
        ELSE PowTable[k + 1] + ((PowTable[k + 2] - PowTable[k + 1]) * f) \div 1000

qualityFromFps(fps) ==
    LET ratioFps == clamp(fps, 0, TARGET_FPS)   \* clamp(fps / TARGET_FPS, 0, 1)
        shaped == Pow078(ratioFps)
    IN  clamp(shaped, MIN_QUALITY, MAX_QUALITY)

\* maxRocketsCap() clamped one above the base cap
maxRocketsCapLoose(q) ==
    LET v == RoundDiv(BASE_MAX_ROCKETS * lerp(6200, 10000, q), MAX_QUALITY)
    IN  clamp(v + 1, 1, BASE_MAX_ROCKETS + 1)

maxRocketsCap(q) ==
    LET v == RoundDiv(BASE_MAX_ROCKETS * lerp(6200, 10000, q), MAX_QUALITY)
    IN  clamp(v, 1, BASE_MAX_ROCKETS)

\* maxParticlesCap() as a cap that does not follow the quality
maxParticlesCapStatic(q) == BASE_MAX_PARTICLES

maxParticlesCap(q) ==
    LET v == (BASE_MAX_PARTICLES * lerp(5500, 10000, q)) \div MAX_QUALITY
    IN  clamp(v, 22, BASE_MAX_PARTICLES)

maxSmokeCap(q) ==
    LET v == (BASE_MAX_SMOKE * lerp(5500, 10000, q)) \div MAX_QUALITY
    IN  clamp(v, 10, BASE_MAX_SMOKE)

smokeParityEnabled(q) == q < 9200

\* base / launchQualityFactor(), in ms
\* The launch spacing at half the base
launchIntervalHalved(base, q) == (base * MAX_QUALITY) \div (2 * lerp(7800, 10000, q))

launchInterval(base, q) == (base * MAX_QUALITY) \div lerp(7800, 10000, q)

\* cos and sin (x1000) of an angle in milliradians, to the nearest eighth of a turn
Octant(a) == (((a % 6283) * 8 + 3141) \div 6283) % 8
Cos(a) == << 1000, 707, 0, -707, -1000, -707, 0, 707 >>[Octant(a) + 1]
Sin(a) == << 0, 707, 1000, 707, 0, -707, -1000, -707 >>[Octant(a) + 1]

\* One draw of rand(lo, hi): the low end or the high end, by the parity of n
Pick(lo, hi, n) == IF n % 2 = 0 THEN lo ELSE hi

\* e, once the record v has been computed: a loop hands the state from one
\* iteration to the next as a value, not as a pending computation
After(v, e) == IF DOMAIN v = {} THEN e ELSE e

Front(q) == SubSeq(q, 1, Len(q) - 1)
Last(q) == q[Len(q)]
RemoveAt(q, i) == SubSeq(q, 1, i - 1) \o SubSeq(q, i + 1, Len(q))

-----------------------------------------------------------------------------
(* Host environment *)

innerWidth == 1024
innerHeight == 768

HeroRects == { [width |-> 800, height |-> 600],
               [width |-> 400, height |-> 600],
               [width |-> 5, height |-> 0] }

Seeds == 0..3                            \* states of the Math.random() generator
KindDraws == << 3000, 6000, 8000, 9500 >>    \* Math.random() as read by chooseBurstKind, in 1/10000
ClickXs == {100}
\* api.burst() without arguments, and at a point close to the right-hand bound
\* beyond which step() drops a particle
BurstArgs == { [x |-> null, y |-> null], [x |-> 955, y |-> 300] }
Deltas == {16, 600}                 \* time between two looks at the clock (ms)
StallDeltas == {300, 1200}          \* the same, of a page kept busy

NoneCreated == [rockets |-> << >>, particles |-> << >>, smoke |-> << >>,
                bursts |-> << >>, sites |-> << >>, pops |-> << >>,
                crackles |-> << >>, launches |-> << >>, asked |-> "none"]

\* Before any start(): no time noted, no rocket launched by autoLaunch
NoHistory == [startedAt |-> null, celebrate |-> FALSE, pausedAt |-> null,
              resumedAt |-> null, autoRockets |-> 0, firstAutoAt |-> null,
              delta |-> null, stopped |-> FALSE,
              adjustedAt |-> null, prevAdjustedAt |-> null,
              smokeTicks |-> << >>, launchedAt |-> null]

-----------------------------------------------------------------------------
(* The program state as one record, so that handlers compose *)

State ==
    [ host |-> host, wired |-> wired, inited |-> inited, running |-> running,
      hidden |-> hidden, heroRect |-> heroRect, sfxEnabled |-> sfxEnabled, now |-> now,
      w |-> w, h |-> h,
      rafQueue |-> rafQueue, stepRafId |-> stepRafId, launchRafId |-> launchRafId,
      timers |-> timers,
      lastTs |-> lastTs, lastLaunch |-> lastLaunch,
      ignoreClicksUntil |-> ignoreClicksUntil, smokeParity |-> smokeParity,
      fpsSmoothed |-> fpsSmoothed, quality |-> quality,
      lastQualityTs |-> lastQualityTs, lastResizeQualityCheck |-> lastResizeQualityCheck,
      currentWind |-> currentWind,
      rockets |-> rockets, particles |-> particles, smokePuffs |-> smokePuffs,
      rocketPool |-> rocketPool, particlePool |-> particlePool, smokePool |-> smokePool,
      audioUnlocked |-> audioUnlocked, lastPopMs |-> lastPopMs, popIndex |-> popIndex,
      rng |-> rng, op |-> op, lastDt |-> lastDt, firstTick |-> firstTick, created |-> created,
      lastFrame |-> lastFrame, nTicks |-> nTicks, nEvents |-> nEvents,
      hist |-> hist, page |-> page ]

Apply(s) ==
    /\ host' = s.host
    /\ wired' = s.wired /\ inited' = s.inited /\ running' = s.running
    /\ hidden' = s.hidden /\ heroRect' = s.heroRect /\ sfxEnabled' = s.sfxEnabled
    /\ now' = s.now /\ w' = s.w /\ h' = s.h
    /\ rafQueue' = s.rafQueue /\ stepRafId' = s.stepRafId /\ launchRafId' = s.launchRafId
    /\ timers' = s.timers
    /\ lastTs' = s.lastTs /\ lastLaunch' = s.lastLaunch
    /\ ignoreClicksUntil' = s.ignoreClicksUntil /\ smokeParity' = s.smokeParity
    /\ fpsSmoothed' = s.fpsSmoothed /\ quality' = s.quality
    /\ lastQualityTs' = s.lastQualityTs
    /\ lastResizeQualityCheck' = s.lastResizeQualityCheck
    /\ currentWind' = s.currentWind
    /\ rockets' = s.rockets /\ particles' = s.particles /\ smokePuffs' = s.smokePuffs
    /\ rocketPool' = s.rocketPool /\ particlePool' = s.particlePool
    /\ smokePool' = s.smokePool
    /\ audioUnlocked' = s.audioUnlocked /\ lastPopMs' = s.lastPopMs
    /\ popIndex' = s.popIndex
    /\ rng' = s.rng
    /\ op' = s.op /\ lastDt' = s.lastDt /\ firstTick' = s.firstTick
    /\ created' = s.created /\ lastFrame' = s.lastFrame
    /\ nTicks' = s.nTicks /\ nEvents' = s.nEvents
    /\ hist' = s.hist
    /\ page' = s.page

\* A handler begins: note which one, and forget the previous handler's creations
\* (op is the handler function: "pause" whether api.pause, blur or pagehide ran it;
\* "event" is a host event that ran none)
Begin(s, name) == [s EXCEPT !.op = name, !.created = NoneCreated]

\* A record with the fields of new assigned; asg collects the names assigned
Assign(r, new) ==
    [f \in DOMAIN r |->
        IF f = "asg" THEN r.asg \cup DOMAIN new
        ELSE IF f \in DOMAIN new THEN new[f] ELSE r[f]]

-----------------------------------------------------------------------------
(* Sound effect *)

unlockSfxOnce(s) ==
    IF s.audioUnlocked THEN s ELSE [s EXCEPT !.audioUnlocked = TRUE]

\* The state s that playPop() left, with the request noted: played or not
requested(s, played) == [s EXCEPT !.created.pops = Append(@, played)]

\* playPop() that plays whatever the time since the last pop
playPopAtOnce(s) ==
    IF ~s.audioUnlocked \/ ~s.sfxEnabled THEN requested(s, FALSE)
    ELSE requested([s EXCEPT !.lastPopMs = s.now,
                             !.popIndex = (s.popIndex + 1) % PopPoolLen], TRUE)

playPop(s) ==
    IF ~s.audioUnlocked \/ ~s.sfxEnabled THEN requested(s, FALSE)
    ELSE IF s.now - s.lastPopMs < POP_GAP_MS THEN requested(s, FALSE)
    ELSE requested([s EXCEPT !.lastPopMs = s.now,
                             !.popIndex = (s.popIndex + 1) % PopPoolLen], TRUE)

-----------------------------------------------------------------------------
(* Frame callbacks and timers of the host *)

RafIds(s) == { s.rafQueue[i].id : i \in 1..Len(s.rafQueue) } \cup {s.stepRafId, s.launchRafId}

\* The handle requestAnimationFrame returns: one no live handle equals
FreshRafId(s) == CHOOSE n \in 1..(Len(s.rafQueue) + 3) :
                    /\ n \notin RafIds(s)
                    /\ \A m \in 1..(n - 1) : m \in RafIds(s)

cancelAnimationFrame(s, id) ==
    [s EXCEPT !.rafQueue = SelectSeq(@, LAMBDA c : c.id # id)]

requestAnimationFrame(s, fn) ==
    [s EXCEPT !.rafQueue = Append(@, [id |-> FreshRafId(s), fn |-> fn])]

setTimeout(s, fn, x, y, hue, delay) ==
    [s EXCEPT !.timers = Append(@, [due |-> s.now + delay, fn |-> fn,
                                    x |-> x, y |-> y, hue |-> hue])]

\* if (id) cancelAnimationFrame(id)
cancelIfSet(s, id) == IF id # null THEN cancelAnimationFrame(s, id) ELSE s

stopLoops(s) ==
    [cancelIfSet(cancelIfSet(s, s.stepRafId), s.launchRafId)
        EXCEPT !.stepRafId = null, !.launchRafId = null]

\* stepRafId = requestAnimationFrame(step)
requestStep(s) ==
    [requestAnimationFrame(s, "step") EXCEPT !.stepRafId = FreshRafId(s)]

\* launchRafId = requestAnimationFrame(autoLaunch)
requestLaunch(s) ==
    [requestAnimationFrame(s, "autoLaunch") EXCEPT !.launchRafId = FreshRafId(s)]

\* startLoops() without its stopLoops(): the callbacks pending stay pending
startLoopsNoCancel(s) == requestLaunch(requestStep(s))

startLoops(s) == requestLaunch(requestStep(stopLoops(s)))

-----------------------------------------------------------------------------
(* Sizing *)

safeHeroRect(s) ==
    [ width |-> IF s.heroRect.width > 2 THEN s.heroRect.width ELSE innerWidth,
      height |-> IF s.heroRect.height > 2 THEN s.heroRect.height ELSE innerHeight ]

resize(s) == [s EXCEPT !.w = safeHeroRect(s).width, !.h = safeHeroRect(s).height]

\* clearAll() and clearFrame() only paint
clearAll(s) == s

qualityWind(n) == Pick(-16000, 16000, n)

-----------------------------------------------------------------------------
(* Entity records and pools.  id names the record (a JavaScript object      *)
(* identity): a new object gets the number after those of its kind that the *)
(* live list and the pool hold; asg is the set of fields assigned since the record was last   *)
(* handed out by its alloc function; reused tells that it was then popped   *)
(* off the pool.                                                            *)

RocketFields == {"x", "y", "px", "py", "vx", "vy", "targetY", "hue", "wind",
                 "kind", "breakDelay", "broke"}
ParticleFields == {"x", "y", "px", "py", "vx", "vy", "life", "maxLife", "size",
                   "hue", "kind", "twPhase", "twAmp", "dragMul", "gravMul",
                   "windMul", "crackleTimer", "heat"}
SmokeFields == {"x", "y", "vx", "vy", "life", "maxLife", "r", "a"}

newRocket(id) ==
    [ id |-> id, asg |-> {}, reused |-> FALSE, born |-> null,
      x |-> 0, y |-> 0, px |-> 0, py |-> 0, vx |-> 0, vy |-> 0,
      targetY |-> 0, hue |-> 0, wind |-> 0, kind |-> "peony",
      breakDelay |-> 0, broke |-> FALSE ]

baseParticle(id) ==
    [ id |-> id, asg |-> {}, reused |-> FALSE,
      x |-> 0, y |-> 0, px |-> 0, py |-> 0, vx |-> 0, vy |-> 0,
      life |-> 60000, maxLife |-> 60000, size |-> 1600, hue |-> 0,
      kind |-> "spark", twPhase |-> 0, twAmp |-> 1000,
      dragMul |-> 1000, gravMul |-> 1000, windMul |-> 1000,
      crackleTimer |-> 0, heat |-> 1000 ]

newSmoke(id) ==
    [ id |-> id, asg |-> {}, reused |-> FALSE,
      x |-> 0, y |-> 0, vx |-> 0, vy |-> 0,
      life |-> 60000, maxLife |-> 60000, r |-> 28, a |-> 120 ]

\* alloc*: the last released record if there is one, else a new one.
\* The result is [s |-> the state with the pool popped, rec |-> the record].
allocRocket(s) ==
    IF Len(s.rocketPool) > 0
    THEN [ s |-> [s EXCEPT !.rocketPool = Front(@)],
           rec |-> [Last(s.rocketPool) EXCEPT !.asg = {}, !.reused = TRUE] ]
    ELSE [ s |-> s, rec |-> newRocket(Len(s.rockets) + Len(s.rocketPool) + 1) ]

freeRocket(s, r) == [s EXCEPT !.rocketPool = Append(@, r)]

\* allocParticle() that hands a pooled record out with the values of a new one
allocParticleZeroed(s) ==
    IF Len(s.particlePool) > 0
    THEN [ s |-> [s EXCEPT !.particlePool = Front(@)],
           rec |-> [baseParticle(Last(s.particlePool).id) EXCEPT !.reused = TRUE] ]
    ELSE [ s |-> s, rec |-> baseParticle(Len(s.particles) + Len(s.particlePool) + 1) ]

allocParticle(s) ==
    IF Len(s.particlePool) > 0
    THEN [ s |-> [s EXCEPT !.particlePool = Front(@)],
           rec |-> [Last(s.particlePool) EXCEPT !.asg = {}, !.reused = TRUE] ]
    ELSE [ s |-> s, rec |-> baseParticle(Len(s.particles) + Len(s.particlePool) + 1) ]

freeParticle(s, p) == [s EXCEPT !.particlePool = Append(@, p)]

allocSmoke(s) ==
    IF Len(s.smokePool) > 0
    THEN [ s |-> [s EXCEPT !.smokePool = Front(@)],
           rec |-> [Last(s.smokePool) EXCEPT !.asg = {}, !.reused = TRUE] ]
    ELSE [ s |-> s, rec |-> newSmoke(Len(s.smokePuffs) + Len(s.smokePool) + 1) ]

freeSmoke(s, p) == [s EXCEPT !.smokePool = Append(@, p)]

-----------------------------------------------------------------------------
(* Spawning *)

chooseBurstKind(r) ==
    IF r < 5200 THEN "peony"
    ELSE IF r < 7200 THEN "ring"
    ELSE IF r < 8800 THEN "palm"
    ELSE "crackle"

\* x = null is the call without an argument.  rnd: [seed, kind].
spawnRocket(s, x, rnd) ==
    IF Len(s.rockets) >= maxRocketsCap(s.quality) THEN s
    ELSE IF s.w < 10 \/ s.h < 10 THEN s
    ELSE
      LET n == rnd.seed
          startX == IF x # null THEN x
                    ELSE Pick((s.w * 15) \div 100, (s.w * 85) \div 100, n)
          startY == s.h + 10
          r == Assign(allocRocket(s).rec,
                 [ x |-> startX, y |-> startY, px |-> startX, py |-> startY,
                   vx |-> Pick(-80, 80, n + 1), vy |-> -Pick(900, 1200, n),
                   targetY |-> Pick((s.h * LOWER_LINE_TARGET_FIREWORKS) \div 100,
                                    (s.h * UPPER_LINE_TARGET_FIREWORKS) \div 100, n + 1),
                   hue |-> Pick(0, 359, n),
                   wind |-> s.currentWind, kind |-> chooseBurstKind(rnd.kind),
                   breakDelay |-> Pick(60, 140, n), broke |-> FALSE ])
      IN  [allocRocket(s).s EXCEPT !.rockets = Append(@, [r EXCEPT !.born = s.now]),
                                   !.created.rockets = Append(@, [r EXCEPT !.born = s.now])]

roomForParticles(s) == Max(0, maxParticlesCap(s.quality) - Len(s.particles))

\* pushParticle() refusing one record early: length + 1 >= cap
pushParticleEarly(s, p) ==
    IF Len(s.particles) + 1 >= maxParticlesCap(s.quality)
    THEN freeParticle(s, p)
    ELSE [s EXCEPT !.particles = Append(@, p),
                   !.created.particles = Append(@, p)]

pushParticle(s, p) ==
    IF Len(s.particles) >= maxParticlesCap(s.quality)
    THEN freeParticle(s, p)
    ELSE [s EXCEPT !.particles = Append(@, p),
                   !.created.particles = Append(@, p)]

\* makeParticle() without "p.maxLife = life"
makeParticleNoMaxLife(s, x, y, vx, vy, life, size, hue, kind, n) ==
    [ s |-> allocParticle(s).s,
      rec |-> Assign(allocParticle(s).rec,
                 [ x |-> x, y |-> y, px |-> x, py |-> y, vx |-> vx, vy |-> vy,
                   life |-> life, size |-> size, hue |-> hue,
                   kind |-> kind,
                   twPhase |-> Pick(0, 6283, n), twAmp |-> Pick(850, 1150, n),
                   dragMul |-> Pick(920, 1100, n), gravMul |-> Pick(920, 1080, n + 1),
                   windMul |-> Pick(850, 1150, n),
                   crackleTimer |-> Pick(20, 70, n), heat |-> Pick(850, 1150, n + 1) ]) ]

\* n selects the draws of the per-particle random fields.
\* The result is [s, rec] as for allocParticle.
makeParticle(s, x, y, vx, vy, life, size, hue, kind, n) ==
    [ s |-> allocParticle(s).s,
      rec |-> Assign(allocParticle(s).rec,
                 [ x |-> x, y |-> y, px |-> x, py |-> y, vx |-> vx, vy |-> vy,
                   life |-> life, maxLife |-> life, size |-> size, hue |-> hue,
                   kind |-> kind,
                   twPhase |-> Pick(0, 6283, n), twAmp |-> Pick(850, 1150, n),
                   dragMul |-> Pick(920, 1100, n), gravMul |-> Pick(920, 1080, n + 1),
                   windMul |-> Pick(850, 1150, n),
                   crackleTimer |-> Pick(20, 70, n), heat |-> Pick(850, 1150, n + 1) ]) ]

\* smokeSprite is not null: its 2D context comes from the same host as ctx
smokeSprite == TRUE

\* spawnSmoke() without "if (smokePuffs.length >= maxSmokeCap()) return"
spawnSmokeUncapped(s, x, y, n) ==
    IF ~smokeSprite THEN s
    ELSE
      LET life == Pick(50000, 80000, n)
          p == Assign(allocSmoke(s).rec,
                 [ x |-> x, y |-> y, vx |-> Pick(-8, 8, n), vy |-> Pick(-10, -2, n + 1),
                   life |-> life, maxLife |-> life,
                   r |-> Pick(22, 44, n), a |-> Pick(60, 120, n + 1) ])
      IN  [allocSmoke(s).s EXCEPT !.smokePuffs = Append(@, p),
                                  !.created.smoke = Append(@, p)]

spawnSmoke(s, x, y, n) ==
    IF ~smokeSprite THEN s
    ELSE IF Len(s.smokePuffs) >= maxSmokeCap(s.quality) THEN s
    ELSE
      LET life == Pick(50000, 80000, n)
          p == Assign(allocSmoke(s).rec,
                 [ x |-> x, y |-> y, vx |-> Pick(-8, 8, n), vy |-> Pick(-10, -2, n + 1),
                   life |-> life, maxLife |-> life,
                   r |-> Pick(22, 44, n), a |-> Pick(60, 120, n + 1) ])
      IN  [allocSmoke(s).s EXCEPT !.smokePuffs = Append(@, p),
                                  !.created.smoke = Append(@, p)]

-----------------------------------------------------------------------------
(* Burst patterns.  Each loop of the source is a sequence of the arguments  *)
(* of its makeParticle calls, pushed in order by PushAll.                   *)

HueAdd(hue, d) == (hue + d + 360) % 360

PArgs(x, y, ang, sp, life, size, hue, kind, n) ==
    [ x |-> x, y |-> y, vx |-> (Cos(ang) * sp) \div 1000, vy |-> (Sin(ang) * sp) \div 1000,
      life |-> life, size |-> size, hue |-> hue, kind |-> kind, n |-> n ]

RandAngle(n) == ((n * 3) % 8) * 785      \* rand(0, 2*PI)

\* makeParticle with the arguments a
makeParticleOf(s, a) ==
    makeParticle(s, a.x, a.y, a.vx, a.vy, a.life, a.size, a.hue, a.kind, a.n)

\* pushParticle(makeParticle(...)): m is what makeParticle returned
pushMade(m) == pushParticle(m.s, m.rec)

\* Iterations lo..hi of such a loop, in order.  The range is halved, and the
\* state handed from one half to the next as a value, so that the evaluation
\* stays shallow.
RECURSIVE PushAll(_, _, _, _)
PushAll(s, args, lo, hi) ==
    IF lo > hi THEN s
    ELSE IF lo = hi THEN pushMade(makeParticleOf(s, args[lo]))
    ELSE LET mid == (lo + hi) \div 2
             s1 == PushAll(s, args, lo, mid)
         IN  After(s1, PushAll(s1, args, mid + 1, hi))

\* The primary sphere of a peony
peonySphere(s, x, y, hue, seed) ==
    LET count == Min(Pick(110, 159, seed), roomForParticles(s))
    IN  PushAll(s,
          [ i \in 1..count |->
              LET n == seed + i - 1
              IN  PArgs(x, y, RandAngle(n),
                        (Pick(280, 700, n) * Pick(850, 1100, n)) \div 1000,
                        Pick(52000, 92000, n), Pick(1000, 2400, n),
                        HueAdd(hue, Pick(-10, 10, n)),
                        IF Pick(0, 9999, n) < 1000 THEN "comet" ELSE "spark", n) ],
          1, count)

\* The glitter of a peony
peonyGlitter(s, x, y, hue, seed) ==
    LET glitterCount == Min(Pick(26, 51, seed), roomForParticles(s))
    IN  PushAll(s,
          [ i \in 1..glitterCount |->
              LET n == seed + i - 1
              IN  PArgs(x, y, RandAngle(n), Pick(120, 260, n),
                        Pick(24000, 55000, n), Pick(900, 1500, n),
                        HueAdd(hue, Pick(-6, 6, n)), "spark", n) ],
          1, glitterCount)

explodePeony(s, x, y, hue, seed) ==
    IF roomForParticles(s) <= 0 THEN s
    ELSE peonyGlitter(peonySphere(s, x, y, hue, seed), x, y, hue, seed)

\* The ring with its angles a fraction of the count intended, not of the count admitted
ringCircleOfIntended(s, x, y, hue, seed) ==
    LET count == Min(Pick(90, 129, seed), roomForParticles(s))
        jitter == Pick(80, 180, seed)
    IN  PushAll(s,
          [ i \in 1..count |->
              LET n == seed + i - 1
                  ang == ((i - 1) * 6283) \div Pick(90, 129, seed)
                            + Pick(-jitter, jitter, n)
              IN  PArgs(x, y, ang + 6283, Pick(360, 640, n),
                        Pick(45000, 80000, n), Pick(1000, 2100, n),
                        HueAdd(hue, Pick(-8, 8, n)), "spark", n) ],
          1, count)

\* The ring proper
ringCircle(s, x, y, hue, seed) ==
    LET count == Min(Pick(90, 129, seed), roomForParticles(s))
        jitter == Pick(80, 180, seed)
    IN  PushAll(s,
          [ i \in 1..count |->
              LET n == seed + i - 1
                  ang == ((i - 1) * 6283) \div count + Pick(-jitter, jitter, n)
              IN  PArgs(x, y, ang + 6283, Pick(360, 640, n),
                        Pick(45000, 80000, n), Pick(1000, 2100, n),
                        HueAdd(hue, Pick(-8, 8, n)), "spark", n) ],
          1, count)

\* The core sparkle of a ring
ringCore(s, x, y, hue, seed) ==
    LET coreCount == Min(Pick(18, 33, seed), roomForParticles(s))
    IN  PushAll(s,
          [ i \in 1..coreCount |->
              LET n == seed + i - 1
              IN  PArgs(x, y, RandAngle(n), Pick(80, 180, n),
                        Pick(22000, 42000, n), Pick(900, 1400, n),
                        hue, "spark", n) ],
          1, coreCount)

explodeRing(s, x, y, hue, seed) ==
    IF roomForParticles(s) <= 0 THEN s
    ELSE ringCore(ringCircle(s, x, y, hue, seed), x, y, hue, seed)

explodePalm(s, x, y, hue, seed) ==
    IF roomForParticles(s) <= 0 THEN s
    ELSE
      LET arms == Pick(6, 9, seed)
          perArm == Max(10, Pick(14, 19, seed))
          total == Min(arms * perArm, roomForParticles(s))
      IN  \* the two nested loops stop together once made = total
          PushAll(s,
            [ m \in 1..total |->
                LET a == (m - 1) \div perArm
                    i == (m - 1) % perArm
                    n == seed + m - 1
                    armAng == RandAngle(seed + a)
                    armHue == HueAdd(hue, Pick(-12, 12, seed + a))
                    ang == armAng + Pick(-120, 120, n) + 6283
                    sp == (Pick(280, 680, n) * (800 + (400 * i) \div perArm)) \div 1000
                IN  PArgs(x, y, ang, sp,
                          Pick(52000, 88000, n) + (i * 10000) \div perArm,
                          Pick(1100, 2300, n), armHue, "comet", n) ],
            1, total)

\* p.crackleTimer = rand(0.02, 0.07) on the particle makeParticle returned
setCrackleTimer(m, n) ==
    [m EXCEPT !.rec = Assign(@, [crackleTimer |-> Pick(20, 70, n)])]

RECURSIVE PushAllCrackle(_, _, _, _)
PushAllCrackle(s, args, lo, hi) ==
    IF lo > hi THEN s
    ELSE IF lo = hi
    THEN pushMade(setCrackleTimer(makeParticleOf(s, args[lo]), args[lo].n + 1))
    ELSE LET mid == (lo + hi) \div 2
             s1 == PushAllCrackle(s, args, lo, mid)
         IN  After(s1, PushAllCrackle(s1, args, mid + 1, hi))

explodeCrackle(s, x, y, hue, seed) ==
    IF roomForParticles(s) <= 0 THEN s
    ELSE
      LET count == Min(Pick(90, 139, seed), roomForParticles(s))
      IN  PushAllCrackle(s,
            [ i \in 1..count |->
                LET n == seed + i - 1
                IN  PArgs(x, y, RandAngle(n), Pick(220, 620, n),
                          Pick(40000, 78000, n), Pick(1000, 2000, n),
                          HueAdd(hue, Pick(-10, 10, n)), "crackle", n) ],
            1, count)

\* if (Math.random() < smokeChance) spawnSmoke(x, y)
burstSmoke(s, x, y, rnd) ==
    IF rnd.smoke < (85 * lerp(5500, 10000, s.quality)) \div 100
    THEN spawnSmoke(s, x, y, rnd.seed)
    ELSE s

\* switch (kind)
burstPattern(s, x, y, hue, kind, seed) ==
    CASE kind = "ring" -> explodeRing(s, x, y, hue, seed)
      [] kind = "palm" -> explodePalm(s, x, y, hue, seed)
      [] kind = "crackle" -> explodeCrackle(s, x, y, hue, seed)
      [] OTHER -> explodePeony(s, x, y, hue, seed)

\* The delayed secondary break, scheduled when there is room left for it
burstBreak(s, x, y, hue, rnd) ==
    IF rnd.brk < (45 * lerp(5500, 10000, s.quality)) \div 100 /\ roomForParticles(s) > 24
    THEN setTimeout(s, "subBurst",
                    x + Pick(-24, 24, rnd.seed), y + Pick(-18, 18, rnd.seed + 1),
                    hue, Pick(70, 139, rnd.seed))
    ELSE s

\* The state s in which explodeBurst was entered, with its pattern, its place and
\* the rockets in the pool and in flight noted
entered(s, x, y, hue, kind) ==
    [s EXCEPT !.created.bursts = Append(@, kind),
              !.created.sites = Append(@,
                  [ x |-> x, y |-> y, hue |-> hue, kind |-> kind,
                    pooled |-> { s.rocketPool[i].id : i \in 1..Len(s.rocketPool) },
                    flying |-> { s.rockets[i].id : i \in 1..Len(s.rockets) } ])]

\* rnd: [smoke, brk : Math.random() draws, seed]
explodeBurst(s, x, y, hue, kind, rnd) ==
    burstBreak(burstPattern(burstSmoke(playPop(entered(s, x, y, hue, kind)), x, y, rnd),
                            x, y, hue, kind, rnd.seed),
               x, y, hue, rnd)

\* if (Math.random() < 0.5 * lerp(0.55, 1.0, quality)) spawnSmoke(x + dx, y + dy)
subBurstSmoke(s, t, rnd) ==
    IF rnd.smoke < (50 * lerp(5500, 10000, s.quality)) \div 100
    THEN spawnSmoke(s, t.x, t.y, rnd.seed)
    ELSE s

\* The delayed secondary break, when its timer t fires.  rnd: [smoke, seed]
subBurst(s, t, rnd) ==
    IF ~s.running THEN s
    ELSE subBurstSmoke(explodePeony(s, t.x, t.y,
                                    HueAdd(t.hue, Pick(-14, 14, rnd.seed)), rnd.seed),
                       t, rnd)

\* x, y = null are the defaults w * 0.5 and h * 0.6.  rnd: [kind, smoke, brk, seed]
\* burst() that asks for a surface of nonzero area only
burstAnyArea(s, x, y, rnd) ==
    IF s.w <= 0 \/ s.h <= 0 THEN s
    ELSE explodeBurst(s, IF x = null THEN (s.w * 50) \div 100 ELSE x,
                         IF y = null THEN (s.h * 60) \div 100 ELSE y,
                      Pick(0, 359, rnd.seed), chooseBurstKind(rnd.kind), rnd)

burst(s, x, y, rnd) ==
    IF s.w < 10 \/ s.h < 10 THEN s
    ELSE explodeBurst(s, IF x = null THEN (s.w * 50) \div 100 ELSE x,
                         IF y = null THEN (s.h * 60) \div 100 ELSE y,
                      Pick(0, 359, rnd.seed), chooseBurstKind(rnd.kind), rnd)

-----------------------------------------------------------------------------
(* Main loop *)

\* fpsSmoothed += (fpsInstant - fpsSmoothed) * FPS_EMA
measureFps(s, deltaMs) ==
    [s EXCEPT !.fpsSmoothed =
        @ + ((1000000 \div clamp(deltaMs, 6, 120) - @) * FPS_EMA) \div 100]

\* The quality adjustment with a gain above one: 1.5 for QUALITY_EMA
adjustQualityOvershooting(s, ts) ==
    IF ts - s.lastQualityTs > 220
    THEN LET qTarget == qualityFromFps(Min(s.fpsSmoothed, 62000))
         IN  [s EXCEPT !.lastQualityTs = ts,
                       !.hist.prevAdjustedAt = s.hist.adjustedAt,
                       !.hist.adjustedAt = ts,
                       !.quality = clamp(@ + ((qTarget - @) * 1500) \div 1000,
                                         MIN_QUALITY, MAX_QUALITY)]
    ELSE s

\* The state s after a quality adjustment at ts, with its time noted
adjusted(s, ts) ==
    [s EXCEPT !.hist.prevAdjustedAt = s.hist.adjustedAt, !.hist.adjustedAt = ts]

\* The quality adjustment on every tick
adjustQualityEveryTick(s, ts) ==
    IF ts - s.lastQualityTs > 0
    THEN LET qTarget == qualityFromFps(Min(s.fpsSmoothed, 62000))
         IN  adjusted([s EXCEPT !.lastQualityTs = ts,
                       !.quality = clamp(@ + ((qTarget - @) * QUALITY_EMA) \div 1000,
                                         MIN_QUALITY, MAX_QUALITY)], ts)
    ELSE s

\* The quality adjustment, at most once in 220 ms
adjustQuality(s, ts) ==
    IF ts - s.lastQualityTs > 220
    THEN LET qTarget == qualityFromFps(Min(s.fpsSmoothed, 62000))
         IN  adjusted([s EXCEPT !.lastQualityTs = ts,
                       !.quality = clamp(@ + ((qTarget - @) * QUALITY_EMA) \div 1000,
                                         MIN_QUALITY, MAX_QUALITY)], ts)
    ELSE s

\* The periodic resize
recheckSize(s, ts) ==
    IF ts - s.lastResizeQualityCheck > RESIZE_CHECK_MS
    THEN IF s.running
         THEN resize([s EXCEPT !.lastResizeQualityCheck = ts])
         ELSE [s EXCEPT !.lastResizeQualityCheck = ts]
    ELSE s

updateQuality(s, ts, deltaMs) ==
    recheckSize(adjustQuality(measureFps(s, deltaMs), ts), ts)

\* One smoke puff advanced by dt (ms)
moveSmoke(p, wind, dt) ==
    [p EXCEPT !.x = @ + ((p.vx * 1000 + (wind * 12) \div 100) * dt) \div 1000000,
              !.y = @ + (p.vy * dt) \div 1000,
              !.life = @ - 60 * dt]

\* The end of the smoke loop's body at index i: p is the puff as moved
settleSmokeAt(s, i, p) ==
    IF \/ p.life <= 0
       \/ p.x < -200 \/ p.x > s.w + 200
       \/ p.y < -200 \/ p.y > s.h + 240
    THEN freeSmoke([s EXCEPT !.smokePuffs = RemoveAt(@, i)], p)
    ELSE [s EXCEPT !.smokePuffs[i] = p]

\* The smoke loop's body at index i
stepSmokeAt(s, i, dt) ==
    settleSmokeAt(s, i, moveSmoke(s.smokePuffs[i], s.currentWind, dt))

\* The smoke loop from index hi down to lo
RECURSIVE stepSmoke(_, _, _, _)
stepSmoke(s, hi, lo, dt) ==
    IF hi < lo THEN s
    ELSE IF hi = lo THEN stepSmokeAt(s, hi, dt)
    ELSE LET mid == (lo + hi) \div 2
             s1 == stepSmoke(s, hi, mid + 1, dt)
         IN  After(s1, stepSmoke(s1, mid, lo, dt))

\* The state s after the smoke part of a tick of dt, noted with the last one
\* before: half tells that smokeParityEnabled() held, ran that the pass ran
passed(s, half, ran, dt) ==
    [s EXCEPT !.hist.smokeTicks =
        (IF @ = << >> THEN @ ELSE << Last(@) >>)
            \o << [half |-> half, ran |-> ran, dt |-> dt] >>]

\* The smoke part of step() without "smokeParity ^= 1"
smokePassUntoggled(s, dt) ==
    IF ~smokeParityEnabled(s.quality)
    THEN passed(stepSmoke(s, Len(s.smokePuffs), 1, dt), FALSE, TRUE, dt)
    ELSE IF s.smokeParity = 0
    THEN passed(stepSmoke(s, Len(s.smokePuffs), 1, dt), TRUE, TRUE, dt)
    ELSE passed(s, TRUE, FALSE, dt)

\* The parity toggle and the smoke pass of step()
smokePass(s, dt) ==
    IF ~smokeParityEnabled(s.quality)
    THEN passed(stepSmoke(s, Len(s.smokePuffs), 1, dt), FALSE, TRUE, dt)
    ELSE IF 1 - s.smokeParity = 0
    THEN passed(stepSmoke([s EXCEPT !.smokeParity = 1 - @], Len(s.smokePuffs), 1, dt),
                TRUE, TRUE, dt)
    ELSE passed([s EXCEPT !.smokeParity = 1 - @], TRUE, FALSE, dt)

\* One rocket advanced by dt (ms): quadratic drag, gravity, wind; then drawRocket,
\* which stores the drawn position in px, py
moveRocket(r, dt) ==
    LET ax == (-airDrag * r.vx * Abs(r.vx)) \div 10 + r.wind \div 10       \* 1/1000 px/s^2
        ay == (-airDrag * r.vy * Abs(r.vy)) \div 10 + gravity * 1000
        vx == r.vx + (ax * dt) \div 1000000
        vy == r.vy + (ay * dt) \div 1000000
        x == r.x + (vx * dt) \div 1000
        y == r.y + (vy * dt) \div 1000
    IN  [r EXCEPT !.vx = vx, !.vy = vy, !.x = x, !.y = y, !.px = x, !.py = y]

\* The end of the rocket loop's body with the rocket left in flight when it
\* detonates
settleRocketInFlight(s, i, r, rnd) ==
    IF (r.y <= r.targetY \/ r.vy >= 0) /\ ~r.broke
    THEN explodeBurst([s EXCEPT !.rockets[i] = [r EXCEPT !.broke = TRUE]],
                      r.x, r.y, r.hue, r.kind, rnd)
    ELSE IF r.x < -120 \/ r.x > s.w + 120 \/ r.y < -180
    THEN freeRocket([s EXCEPT !.rockets = RemoveAt(@, i)], r)
    ELSE [s EXCEPT !.rockets[i] = r]

\* The end of the rocket loop's body at index i: r is the rocket as moved.
\* rnd: the draws of the detonation
settleRocketAt(s, i, r, rnd) ==
    IF (r.y <= r.targetY \/ r.vy >= 0) /\ ~r.broke
    THEN explodeBurst(freeRocket([s EXCEPT !.rockets = RemoveAt(@, i)],
                                 [r EXCEPT !.broke = TRUE]),
                      r.x, r.y, r.hue, r.kind, rnd)
    ELSE IF r.x < -120 \/ r.x > s.w + 120 \/ r.y < -180
    THEN freeRocket([s EXCEPT !.rockets = RemoveAt(@, i)], r)
    ELSE [s EXCEPT !.rockets[i] = r]

\* The rocket loop from index i down to 1
RECURSIVE stepRockets(_, _, _, _)
stepRockets(s, i, dt, rnd) ==
    IF i < 1 THEN s
    ELSE stepRockets(settleRocketAt(s, i, moveRocket(s.rockets[i], dt), rnd),
                     i - 1, dt, rnd)

\* One particle advanced by dt (ms), with its own drag, gravity and wind multipliers
moveParticle(p, wind, dt) ==
    LET ax == - (((airDrag * p.vx * Abs(p.vx)) \div 10) * p.dragMul) \div 1000
              + (((wind * 8) \div 100) * p.windMul) \div 1000                \* 1/1000 px/s^2
        ay == - (((airDrag * p.vy * Abs(p.vy)) \div 10) * p.dragMul) \div 1000
              + gravity * p.gravMul
        vx == p.vx + (ax * dt) \div 1000000
        vy == p.vy + (ay * dt) \div 1000000
    IN  [p EXCEPT !.vx = vx, !.vy = vy,
                  !.x = @ + (vx * dt) \div 1000,
                  !.y = @ + (vy * dt) \div 1000]

particleAlpha(p, t) ==
    LET tw == 720 + (280 * Sin(p.twPhase + ((1000 - t) * 105) \div 10)) \div 1000
        base == (((t * tw) \div 1000) * p.twAmp) \div 1000
    IN  IF p.kind = "ember" THEN (base * 65) \div 100
        ELSE IF p.kind = "crackle" THEN (base * 85) \div 100
        ELSE IF p.kind = "comet" THEN (base * 95) \div 100
        ELSE base

\* drawParticle paints and, unless it returns early, stores the drawn position
drawParticle(p) ==
    IF p.life <= 0 THEN p
    ELSE IF particleAlpha(p, (p.life * 1000) \div p.maxLife) <= 10 THEN p
    ELSE [p EXCEPT !.px = p.x, !.py = p.y]

\* The micro-sparks of the crackle particle p: pushes k..microCount-1
RECURSIVE pushMicro(_, _, _, _, _)
pushMicro(s, p, k, microCount, seed) ==
    IF k >= microCount THEN s
    ELSE LET n == seed + k
             ang == RandAngle(n)
             sp == Pick(70, 170, n)
         IN  pushMicro(pushMade(makeParticle(s, p.x, p.y,
                                   (p.vx * 8) \div 100 + (Cos(ang) * sp) \div 1000,
                                   (p.vy * 8) \div 100 + (Sin(ang) * sp) \div 1000,
                                   Pick(16000, 28000, n), Pick(900, 1400, n),
                                   HueAdd(p.hue, Pick(-8, 8, n)), "spark", n)),
                       p, k + 1, microCount, seed)

\* Comets cool down
coolComet(p, dt) ==
    IF p.kind = "comet"
    THEN [p EXCEPT !.heat = Max(350, @ - (dt * 9) \div 10),
                   !.size = @ - (@ * dt * 150) \div 1000000]
    ELSE p

\* The end of the particle loop's body without "particles.splice(i, 1)"
settleParticleAtKept(s, i, p) ==
    IF \/ p.life <= 0
       \/ p.x < -160 \/ p.x > s.w + 160
       \/ p.y > s.h + 220
    THEN freeParticle([s EXCEPT !.particles[i] = p], p)
    ELSE [s EXCEPT !.particles[i] = p]

\* The end of the particle loop's body at index i: p is the particle as drawn
settleParticleAt(s, i, p) ==
    IF \/ p.life <= 0
       \/ p.x < -160 \/ p.x > s.w + 160
       \/ p.y > s.h + 220
    THEN freeParticle([s EXCEPT !.particles = RemoveAt(@, i)], p)
    ELSE [s EXCEPT !.particles[i] = p]

\* The particle loop's body with a life that runs out by one unit a frame
finishParticleAtPerFrame(s, i, p, dt) ==
    settleParticleAt(s, i, drawParticle([coolComet(p, dt) EXCEPT !.life = @ - 1000]))

\* The particle loop's body at index i from the comet cooling on
finishParticleAt(s, i, p, dt) ==
    settleParticleAt(s, i, drawParticle([coolComet(p, dt) EXCEPT !.life = @ - 60 * dt]))

\* The state t after the crackle part of a crackle particle, entered in the
\* state s with the timer counted down to timer and left with the timer at
\* after, noted with the room found and the sparks pushed
crackled(t, s, timer, after) ==
    [t EXCEPT !.created.crackles = Append(@,
        [ timer |-> timer, after |-> after, room |-> roomForParticles(s),
          sparks |-> [ k \in 1..(Len(t.particles) - Len(s.particles)) |->
                         t.particles[Len(s.particles) + k].kind ],
          over |-> Len(t.particles) - maxParticlesCap(t.quality) ])]

\* The crackle part of the body that does not look at the room
crackleAtCrowded(s, i, p, dt, rnd) ==
    IF p.kind # "crackle" THEN finishParticleAt(s, i, p, dt)
    ELSE IF p.crackleTimer - dt <= 0
    THEN finishParticleAt(
             crackled(pushMicro(s, p, 0,
                                (rnd.micro * lerp(5500, 10000, s.quality)) \div 10000000,
                                rnd.seed),
                      s, p.crackleTimer - dt, Pick(20, 70, rnd.seed + i)),
             i, [p EXCEPT !.crackleTimer = Pick(20, 70, rnd.seed + i)], dt)
    ELSE finishParticleAt(crackled(s, s, p.crackleTimer - dt, p.crackleTimer - dt),
                          i, [p EXCEPT !.crackleTimer = @ - dt], dt)

\* The crackle part of the body: p is the particle as moved.  rnd: [micro, seed]
crackleAt(s, i, p, dt, rnd) ==
    IF p.kind # "crackle" THEN finishParticleAt(s, i, p, dt)
    ELSE IF p.crackleTimer - dt <= 0 /\ roomForParticles(s) > 6
    THEN finishParticleAt(
             crackled(pushMicro(s, p, 0,
                                (rnd.micro * lerp(5500, 10000, s.quality)) \div 10000000,
                                rnd.seed),
                      s, p.crackleTimer - dt, Pick(20, 70, rnd.seed + i)),
             i, [p EXCEPT !.crackleTimer = Pick(20, 70, rnd.seed + i)], dt)
    ELSE finishParticleAt(crackled(s, s, p.crackleTimer - dt, p.crackleTimer - dt),
                          i, [p EXCEPT !.crackleTimer = @ - dt], dt)

\* The particle loop's body at index i
stepParticleAt(s, i, dt, rnd) ==
    crackleAt(s, i, moveParticle(s.particles[i], s.currentWind, dt), dt, rnd)

\* The particle loop from index hi down to lo
RECURSIVE stepParticles(_, _, _, _, _)
stepParticles(s, hi, lo, dt, rnd) ==
    IF hi < lo THEN s
    ELSE IF hi = lo THEN stepParticleAt(s, hi, dt, rnd)
    ELSE LET mid == (lo + hi) \div 2
             s1 == stepParticles(s, hi, mid + 1, dt, rnd)
         IN  After(s1, stepParticles(s1, mid, lo, dt, rnd))

stepAllRockets(s, dt, rnd) == stepRockets(s, Len(s.rockets), dt, rnd)
stepAllParticles(s, dt, rnd) == stepParticles(s, Len(s.particles), 1, dt, rnd)

\* step() from updateQuality on; deltaMs and dt are the real and the simulated
\* time since the last tick
stepLoops(s, ts, deltaMs, dt, rnd) ==
    requestStep(stepAllParticles(
                    stepAllRockets(smokePass(updateQuality(s, ts, deltaMs), dt), dt, rnd),
                    dt, rnd))

step(s, ts, rnd) ==
    IF ~s.running THEN s
    ELSE LET deltaMs == IF s.lastTs = null THEN 0 ELSE ts - s.lastTs
             dt == clamp(deltaMs, 0, DT_MAX)
         IN  stepLoops([s EXCEPT !.lastTs = ts, !.lastDt = dt, !.firstTick = FALSE],
                       ts, deltaMs, dt, rnd)

\* if (Math.random() < buddyChance) spawnRocket()
launchBuddy(s, rnd) ==
    IF rnd.buddy < (55 * lerp(5500, 10000, s.quality)) \div 100
    THEN spawnRocket(s, null, [rnd EXCEPT !.seed = 1 - @])
    ELSE s

\* The state t that autoLaunch left of s, with its new rockets counted
noteLaunched(s, t) ==
    [t EXCEPT !.hist.autoRockets = @ + Len(t.created.rockets) - Len(s.created.rockets),
              !.hist.firstAutoAt =
                  IF @ = null /\ Len(t.created.rockets) > Len(s.created.rockets)
                  THEN t.lastLaunch ELSE @]

\* rnd: [u, buddy, kind : draws, seed]
\* The state t after autoLaunch, called at ts in the state s, has launched:
\* noted with lastLaunch as found, the launch before, the spacing before the
\* jitter, and the rockets in flight before and after
launched(s, t, ts, intervalBase) ==
    [t EXCEPT !.hist.launchedAt = ts,
              !.created.launches = Append(@,
                  [ at |-> ts, last |-> s.lastLaunch, prev |-> s.hist.launchedAt,
                    base |-> intervalBase, narrow |-> s.w < 600,
                    before |-> Len(s.rockets), after |-> Len(t.rockets),
                    cap |-> maxRocketsCap(s.quality) ])]

\* autoLaunch() that waits for the jitter only
autoLaunchEager(s, ts, rnd) ==
    IF ~s.running THEN s
    ELSE
      LET base == IF s.w < 600 THEN AUTO_BASE_MOBILE ELSE AUTO_BASE_DESKTOP
          intervalBase == launchInterval(base, s.quality)
          interval == (rnd.u * intervalBase) \div 10000
      IN  IF ts - s.lastLaunch > interval
          THEN requestLaunch(launched(s, noteLaunched(s, launchBuddy(
                   spawnRocket([s EXCEPT !.lastLaunch = ts], null, rnd), rnd)),
                   ts, intervalBase))
          ELSE requestLaunch(s)

autoLaunch(s, ts, rnd) ==
    IF ~s.running THEN s
    ELSE
      LET base == IF s.w < 600 THEN AUTO_BASE_MOBILE ELSE AUTO_BASE_DESKTOP
          intervalBase == launchInterval(base, s.quality)
          interval == intervalBase + (rnd.u * intervalBase) \div 10000
      IN  IF ts - s.lastLaunch > interval
          THEN requestLaunch(launched(s, noteLaunched(s, launchBuddy(
                   spawnRocket([s EXCEPT !.lastLaunch = ts], null, rnd), rnd)),
                   ts, intervalBase))
          ELSE requestLaunch(s)

-----------------------------------------------------------------------------
(* Pause / resume / start / stop *)

\* pause() that also empties the live lists
pauseClearing(s) ==
    IF ~s.running THEN s
    ELSE stopLoops([s EXCEPT !.running = FALSE, !.hist.pausedAt = s.now, !.rockets = << >>,
                             !.particles = << >>, !.smokePuffs = << >>])

pause(s) ==
    IF ~s.running THEN s
    ELSE stopLoops([s EXCEPT !.running = FALSE, !.hist.pausedAt = s.now])

\* resetPerf() resetting the quality to zero
resetPerfZero(s) ==
    [s EXCEPT !.fpsSmoothed = TARGET_FPS, !.quality = 0,
              !.lastQualityTs = 0, !.lastResizeQualityCheck = 0]

resetPerf(s) ==
    [s EXCEPT !.fpsSmoothed = TARGET_FPS, !.quality = MAX_QUALITY,
              !.lastQualityTs = 0, !.lastResizeQualityCheck = 0]

\* resume() without "lastTs = null"
resumeTimersKeepClock(s, n) ==
    [s EXCEPT !.firstTick = TRUE, !.hist.resumedAt = s.now,
              !.lastLaunch = s.now,
              !.ignoreClicksUntil = s.now + RESUME_IGNORE_CLICKS_MS,
              !.currentWind = (@ * 6 + qualityWind(n) * 4) \div 10]

\* resume() after its resize().  n selects the draw of qualityWind()
resumeTimers(s, n) ==
    [s EXCEPT !.lastTs = null, !.firstTick = TRUE, !.hist.resumedAt = s.now,
              !.lastLaunch = s.now,
              !.ignoreClicksUntil = s.now + RESUME_IGNORE_CLICKS_MS,
              !.currentWind = (@ * 6 + qualityWind(n) * 4) \div 10]

resume(s, n) ==
    startLoops(resetPerf(resumeTimers(resize([s EXCEPT !.running = TRUE]), n)))

\* start() after its resize().  n selects the draw of qualityWind()
startTimers(s, n) ==
    [clearAll([s EXCEPT !.running = TRUE,
                        !.ignoreClicksUntil = s.now + IGNORE_CLICKS_MS])
        EXCEPT !.lastTs = null, !.firstTick = TRUE,
               !.hist = [NoHistory EXCEPT !.startedAt = s.now,
                                          !.adjustedAt = s.hist.adjustedAt,
                                          !.prevAdjustedAt = s.hist.prevAdjustedAt,
                                          !.smokeTicks = s.hist.smokeTicks,
                                          !.launchedAt = s.hist.launchedAt],
               !.lastLaunch = s.now,
               !.currentWind = qualityWind(n)]

\* The three celebration timers
celebration(s) ==
    setTimeout(setTimeout(setTimeout(s,
        "celebrate1", null, null, null, 90),
        "celebrate2", null, null, null, 170),
        "celebrate3", null, null, null, 240)

\* start() up to its startLoops()
startShow(s, n) == startLoops(resetPerf(startTimers(resize(s), n)))

\* The state s that start() left, with the option it was called with noted
called(s, celebrate) == [s EXCEPT !.hist.celebrate = celebrate]

\* start() that schedules the celebration whatever the option
startCelebrating(s, celebrate, n) ==
    called(celebration(startShow(s, n)), celebrate)

start(s, celebrate, n) ==
    IF celebrate
    THEN called(celebration(startShow(s, n)), celebrate)
    ELSE called(startShow(s, n), celebrate)

Reverse(q) == [i \in 1..Len(q) |-> q[Len(q) + 1 - i]]

\* stop() emptying the live lists without freeing the records
releaseAllDropped(s) ==
    [s EXCEPT !.rockets = << >>, !.particles = << >>, !.smokePuffs = << >>]

\* The three while loops of stop(): each pops the live list from its end into
\* the pool
releaseAll(s) ==
    [s EXCEPT !.rocketPool = @ \o Reverse(s.rockets), !.rockets = << >>,
              !.particlePool = @ \o Reverse(s.particles), !.particles = << >>,
              !.smokePool = @ \o Reverse(s.smokePuffs), !.smokePuffs = << >>]

stop(s) == [clearAll(resize(releaseAll(pause(s)))) EXCEPT !.hist.stopped = TRUE]

\* initOnce registers the listeners; inited is what tells that they exist
initOnce(s) ==
    IF s.inited THEN s
    ELSE resize([s EXCEPT !.inited = TRUE])

\* if (Math.random() < buddyChance) spawnRocket(x + rand(-40, 40))
clickBuddy(s, x, rnd) ==
    IF rnd.buddy < (30 * lerp(5500, 10000, s.quality)) \div 100
    THEN spawnRocket(s, x + Pick(-40, 40, rnd.seed), [rnd EXCEPT !.seed = 1 - @])
    ELSE s

\* The click listener.  rnd: [buddy, kind : draws, seed]

onClick(s, x, rnd) ==
    IF ~s.running THEN s
    ELSE IF s.now < s.ignoreClicksUntil THEN s
    ELSE clickBuddy(spawnRocket(s, x, rnd), x, rnd)

onVisibilityChange(s, n) ==
    IF s.hidden THEN pause(Begin(s, "pause")) ELSE resume(Begin(s, "resume"), n)
onFocus(s, n) == IF ~s.hidden THEN resume(Begin(s, "resume"), n) ELSE s

\* The script without its reduced-motion return
ApiWiredIgnoringMotion(hasCanvas, reduceMotion, hasCtx) ==
    IF ~hasCanvas THEN FALSE
    ELSE IF ~hasCtx THEN FALSE
    ELSE TRUE

\* The script's early returns: the api keeps its no-op handlers unless all hold
ApiWired(hasCanvas, reduceMotion, hasCtx) ==
    IF ~hasCanvas THEN FALSE
    ELSE IF reduceMotion THEN FALSE
    ELSE IF ~hasCtx THEN FALSE
    ELSE TRUE

\* A timer callback: the three celebration bursts of start() and the delayed break
runTimer(s, t, rnd) ==
    CASE t.fn = "celebrate1" -> burst(s, (s.w * 50) \div 100, (s.h * 62) \div 100, rnd)
      [] t.fn = "celebrate2" -> burst(s, (s.w * 38) \div 100, (s.h * 58) \div 100, rnd)
      [] t.fn = "celebrate3" -> burst(s, (s.w * 62) \div 100, (s.h * 60) \div 100, rnd)
      [] OTHER -> subBurst(s, t, rnd)

\* The first callback of the queue that was pending when the frame began
FirstPending(s, snap) ==
    CHOOSE i \in 1..Len(s.rafQueue) :
        /\ s.rafQueue[i].id \in snap
        /\ \A k \in 1..(i - 1) : s.rafQueue[k].id \notin snap

\* The callback cb runs, off the queue
runCallback(s, cb, ts, rnd) ==
    IF cb.fn = "step"
    THEN step(cancelAnimationFrame(s, cb.id), ts, rnd)
    ELSE autoLaunch(cancelAnimationFrame(s, cb.id), ts, rnd)

\* One frame of the host: the callbacks pending when it begins (snap) run in the
\* order they were requested; a callback cancelled meanwhile does not run
RECURSIVE runFrame(_, _, _, _)
runFrame(s, snap, ts, rnd) ==
    IF \A i \in 1..Len(s.rafQueue) : s.rafQueue[i].id \notin snap THEN s
    ELSE runFrame(runCallback(s, s.rafQueue[FirstPending(s, snap)], ts, rnd),
                  snap \ {s.rafQueue[FirstPending(s, snap)].id}, ts, rnd)

-----------------------------------------------------------------------------
(* Draws of Math.random() for one run of a handler *)

\* What a handler run reads off the generator in state g: the pattern draw,
\* the chance draws (all low or all high, in 1/10000), rand(1, 3) in 1/1000, and
\* the end from which the rand(lo, hi) draws alternate
Roll(g) ==
    [ kind |-> KindDraws[g + 1],
      smoke |-> IF g \in {0, 3} THEN 0 ELSE 9999,
      brk |-> IF g \in {0, 3} THEN 0 ELSE 9999,
      buddy |-> IF g \in {0, 3} THEN 0 ELSE 9999,
      u |-> IF g \in {0, 1} THEN 0 ELSE 9999,
      micro |-> IF g \in {0, 1} THEN 2999 ELSE 1000,
      seed |-> g % 2 ]

\* The generator after a handler that may draw has run
NextSeed(g) == (g + 1) % 4
Drawn(s) == [s EXCEPT !.rng = NextSeed(@)]

-----------------------------------------------------------------------------
(* script.js: the invitation page.  q is the page as the script sees it:    *)
(* its state object, the elements found when it ran (els), localStorage     *)
(* (storage, "none" for a key that is not there), and the parts of the      *)
(* document it writes.  loaded keeps what the page load started from.       *)

PERSIST_ENTERED == FALSE

\* getLS(k, fallback)
getLS(q, k, fallback) == IF q.storage[k] = "none" THEN fallback ELSE q.storage[k]

\* setLS(k, v) on a storage that takes every write
setLSAlways(q, k, v) == [q EXCEPT !.storage[k] = v]

\* setLS(k, v): localStorage.setItem throws where the storage is full or
\* refused, and the write is dropped
setLS(q, k, v) == IF q.writable THEN [q EXCEPT !.storage[k] = v] ELSE q

removeLS(q, k) == [q EXCEPT !.storage[k] = "none"]

RSVP_ENDPOINT == "https://formspree.io/f/xgovdbzb"
RSVP_MAILTO_TO == ""

\* A page without the RSVP form.  A field value is a sequence of characters;
\* message stands for the three optional fields.  disabled is the submit
\* button's, ariaBusy the form's attribute, status the text of the status
\* line (a key of I18N in the language it was read in), inFlight the requests
\* fetch() has not settled, sent the calls of fetch().
NoRsvp ==
    [ els |-> [ rsvpForm |-> FALSE, rsvpName |-> FALSE, rsvpAttend |-> FALSE,
                rsvpMessage |-> FALSE, rsvpSubmitBtn |-> FALSE, rsvpStatus |-> FALSE ],
      fields |-> [name |-> << >>, attending |-> << >>, message |-> << >>],
      defaults |-> [name |-> << >>, attending |-> << >>, message |-> << >>],
      disabled |-> FALSE, ariaBusy |-> "none",
      status |-> [key |-> "", lang |-> "none"],
      inFlight |-> << >>, sent |-> 0, mailed |-> 0, saved |-> FALSE ]

\* new Date(WEDDING_DATE_ISO), "2026-01-24T10:30:00+07:00".  An instant is kept
\* as whole seconds since the epoch and the milliseconds past them, for the
\* milliseconds since the epoch are beyond the checker's integers.
WEDDING_DATE == [s |-> 1769225400, ms |-> 0]

\* a is an earlier instant than b
Earlier(a, b) == a.s < b.s \/ (a.s = b.s /\ a.ms < b.ms)

\* The instant d milliseconds after t
Later(t, d) == [s |-> t.s + (t.ms + d) \div 1000, ms |-> (t.ms + d) % 1000]

\* A page without the countdown.  date is Date.now(); text holds the
\* textContent of the four boxes as sequences of digits, << >> for what the
\* markup shows; ticks counts the runs of tick(), at is the date of the last
\* and from that of the first
NoCountdown ==
    [ els |-> [cdDays |-> FALSE, cdHours |-> FALSE, cdMins |-> FALSE, cdSecs |-> FALSE],
      date |-> WEDDING_DATE,
      text |-> [days |-> << >>, hours |-> << >>, mins |-> << >>, secs |-> << >>],
      interval |-> FALSE, ticks |-> 0, at |-> WEDDING_DATE, from |-> WEDDING_DATE ]

\* The document as the markup ships it and as the script finds it: which
\* elements are there, the classes of body and overlay, the story photos
PlainMarkup ==
    [ els |-> [ body |-> TRUE, overlay |-> TRUE, inviteCard |-> TRUE, sealBtn |-> TRUE,
                langToggle |-> TRUE, musicToggle |-> TRUE, bgMusic |-> TRUE ],
      overlayHidden |-> FALSE, bodyLocked |-> FALSE,
      brideImg |-> [present |-> TRUE, src |-> "groom.jpg"],
      groomImg |-> [present |-> TRUE, src |-> "bride.jpg"] ]

NoStorage == [entered |-> "none", lang |-> "none", music |-> "none"]

\* The entries of GALLERY_IMAGES
GALLERY_IMAGES == 10

\* A page without the gallery viewer: images is the length of the list the
\* viewer would show, thumbs the buttons in the thumbnail strip, active the
\* thumbnails marked "is-active", shown the image in the main frame (by
\* index), trail the last two calls of setGalleryIndex
NoGallery ==
    [ images |-> GALLERY_IMAGES,
      els |-> [ galleryMainImg |-> FALSE, galleryThumbs |-> FALSE, galleryPrev |-> FALSE,
                galleryNext |-> FALSE, galleryStage |-> FALSE ],
      thumbs |-> 0, active |-> {}, shown |-> null, trail |-> << >> ]

\* The page when the script has run on the markup m with the storage st, its
\* init() still to come
Page(m, st) ==
    [ state |-> [ entered |-> IF PERSIST_ENTERED THEN st.entered = "1" ELSE FALSE,
                  lang |-> IF st.lang \in {"en", "vi"} THEN st.lang ELSE "vi",
                  musicOn |-> st.music = "1",
                  galleryIndex |-> 0 ],
      els |-> m.els,
      gallery |-> NoGallery,
      rsvp |-> NoRsvp,
      countdown |-> NoCountdown,
      storage |-> st, writable |-> TRUE,
      html |-> [lang |-> "none"],
      body |-> [locked |-> m.bodyLocked, reveal |-> FALSE],
      overlay |-> [hidden |-> m.overlayHidden,
                   ariaHidden |-> IF m.overlayHidden THEN "true" ELSE "none"],
      inviteCard |-> [flipped |-> FALSE],
      brideImg |-> m.brideImg, groomImg |-> m.groomImg,
      bgMusic |-> [playing |-> FALSE, played |-> FALSE],
      listening |-> {},
      ready |-> FALSE,
      loaded |-> [markup |-> m, storage |-> st] ]

\* applyLanguage(): the lang attribute of the document element; the texts are
\* not part of the model
applyLanguage(q) == [q EXCEPT !.html.lang = q.state.lang]

\* tryPlayMusic(): play() is requested, and the host lets it start or not
tryPlayMusic(q, allowed) ==
    IF ~q.els.bgMusic THEN q
    ELSE [q EXCEPT !.bgMusic.played = TRUE, !.bgMusic.playing = allowed]

stopMusic(q) ==
    IF ~q.els.bgMusic THEN q ELSE [q EXCEPT !.bgMusic.playing = FALSE]

setMusicOn(q, on, allowed) ==
    LET q1 == setLS([q EXCEPT !.state.musicOn = on], "music", IF on THEN "1" ELSE "0")
    IN  IF ~q1.els.bgMusic THEN q1
        ELSE IF on THEN tryPlayMusic(q1, allowed)
        ELSE stopMusic(q1)

setInviteFlipped(q, flipped) ==
    IF ~q.els.inviteCard THEN q ELSE [q EXCEPT !.inviteCard.flipped = flipped]

\* unlockSite() that leaves the overlay as it is
unlockSiteOverlaid(q) ==
    LET q1 == IF q.els.body
              THEN [q EXCEPT !.body.locked = FALSE, !.body.reveal = TRUE]
              ELSE q
        q3 == [q1 EXCEPT !.state.entered = TRUE]
    IN  IF PERSIST_ENTERED THEN setLS(q3, "entered", "1") ELSE removeLS(q3, "entered")

unlockSite(q) ==
    LET q1 == IF q.els.body
              THEN [q EXCEPT !.body.locked = FALSE, !.body.reveal = TRUE]
              ELSE q
        q2 == IF q1.els.overlay
              THEN [q1 EXCEPT !.overlay.hidden = TRUE, !.overlay.ariaHidden = "true"]
              ELSE q1
        q3 == [q2 EXCEPT !.state.entered = TRUE]
    IN  IF PERSIST_ENTERED THEN setLS(q3, "entered", "1") ELSE removeLS(q3, "entered")

enterSite(q, allowed) == setMusicOn(unlockSite(q), TRUE, allowed)

initOverlay(q) ==
    IF ~q.els.overlay \/ ~q.els.inviteCard \/ ~q.els.sealBtn
    THEN IF q.els.body THEN [q EXCEPT !.body.locked = FALSE] ELSE q
    ELSE IF q.state.entered
    THEN [q EXCEPT !.body.locked = IF q.els.body THEN FALSE ELSE @,
                   !.overlay.hidden = TRUE, !.overlay.ariaHidden = "true"]
    ELSE [q EXCEPT !.overlay.hidden = FALSE, !.overlay.ariaHidden = "false",
                   !.body.locked = IF q.els.body THEN TRUE ELSE @,
                   !.listening = @ \cup {"inviteCard", "sealBtn"}]

initMusicToggle(q) ==
    IF ~q.els.musicToggle THEN q ELSE [q EXCEPT !.listening = @ \cup {"musicToggle"}]

initLangToggle(q) ==
    IF ~q.els.langToggle THEN q ELSE [q EXCEPT !.listening = @ \cup {"langToggle"}]

\* The story photos change sides: both elements are there and both have a
\* source
fixBrideGroomSwapped(q) ==
    IF ~q.brideImg.present \/ ~q.groomImg.present THEN q
    ELSE IF q.brideImg.src = "" \/ q.groomImg.src = "" THEN q
    ELSE [q EXCEPT !.brideImg.src = q.groomImg.src,
                   !.groomImg.src = q.brideImg.src]

\* a % n of JavaScript: the remainder has the sign of a
Rem(a, n) == IF a >= 0 THEN a % n ELSE -((-a) % n)

\* setGalleryIndex without "+ n"
setGalleryIndexPlain(q, idx, by) ==
    LET n == q.gallery.images
        i == Rem(idx, n)
    IN  [q EXCEPT !.state.galleryIndex = i,
                  !.gallery.shown = i,
                  !.gallery.active = IF i \in 0..(q.gallery.thumbs - 1) THEN {i} ELSE {},
                  !.gallery.trail = (IF @ = << >> THEN @ ELSE << Last(@) >>)
                      \o << [by |-> by, from |-> q.state.galleryIndex, idx |-> idx] >>]

\* setGalleryIndex(idx, doScrollThumb), called by the listener "by"
setGalleryIndex(q, idx, by) ==
    LET n == q.gallery.images
        i == Rem(idx + n, n)
    IN  [q EXCEPT !.state.galleryIndex = i,
                  !.gallery.shown = i,
                  !.gallery.active = IF i \in 0..(q.gallery.thumbs - 1) THEN {i} ELSE {},
                  !.gallery.trail = (IF @ = << >> THEN @ ELSE << Last(@) >>)
                      \o << [by |-> by, from |-> q.state.galleryIndex, idx |-> idx] >>]

initGallery(q) ==
    IF ~q.gallery.els.galleryMainImg \/ ~q.gallery.els.galleryThumbs THEN q
    ELSE IF q.gallery.images = 0 THEN q
    ELSE
      LET q1 == [q EXCEPT !.state.galleryIndex = 0,
                          !.gallery.thumbs = q.gallery.images,
                          !.gallery.active = {},
                          !.listening = @ \cup {"galleryThumb"}]
          q2 == setGalleryIndex(q1, q1.state.galleryIndex, "init")
      IN  [q2 EXCEPT !.listening = @
               \cup (IF q.gallery.els.galleryPrev THEN {"galleryPrev"} ELSE {})
               \cup (IF q.gallery.els.galleryNext THEN {"galleryNext"} ELSE {})
               \cup (IF q.gallery.els.galleryStage THEN {"galleryStage"} ELSE {})]

\* The keydown listener of the gallery stage
galleryKey(q, key) ==
    IF key = "ArrowLeft" THEN setGalleryIndex(q, q.state.galleryIndex - 1, "left")
    ELSE IF key = "ArrowRight" THEN setGalleryIndex(q, q.state.galleryIndex + 1, "right")
    ELSE q

\* String(n), of a natural number, as its digits
RECURSIVE digits(_)
digits(n) == IF n < 10 THEN << n >> ELSE digits(n \div 10) \o << n % 10 >>

pad2(n) ==
    LET d == digits(Max(0, n))
    IN  IF Len(d) < 2 THEN << 0 >> \o d ELSE d

\* Math.floor((target.getTime() - now) / 1000) after "if (diff <= 0) diff = 0"
totalSecondsTo(target, date) ==
    IF ~Earlier(date, target) THEN 0
    ELSE (target.s - date.s) - (IF target.ms < date.ms THEN 1 ELSE 0)

\* tick() with the hours taken of all the seconds
tickHoursOfAll(q) ==
    LET totalSeconds == totalSecondsTo(WEDDING_DATE, q.countdown.date)
        days == totalSeconds \div (24 * 3600)
        hours == totalSeconds \div 3600
        mins == Rem(totalSeconds, 3600) \div 60
        secs == Rem(totalSeconds, 60)
    IN  [q EXCEPT !.countdown.text = [days |-> pad2(days), hours |-> pad2(hours),
                                      mins |-> pad2(mins), secs |-> pad2(secs)],
                  !.countdown.ticks = @ + 1,
                  !.countdown.at = q.countdown.date,
                  !.countdown.from = IF q.countdown.ticks = 0 THEN q.countdown.date ELSE @]

\* tick() of startCountdown
tick(q) ==
    LET totalSeconds == totalSecondsTo(WEDDING_DATE, q.countdown.date)
        days == totalSeconds \div (24 * 3600)
        hours == Rem(totalSeconds, 24 * 3600) \div 3600
        mins == Rem(totalSeconds, 3600) \div 60
        secs == Rem(totalSeconds, 60)
    IN  [q EXCEPT !.countdown.text = [days |-> pad2(days), hours |-> pad2(hours),
                                      mins |-> pad2(mins), secs |-> pad2(secs)],
                  !.countdown.ticks = @ + 1,
                  !.countdown.at = q.countdown.date,
                  !.countdown.from = IF q.countdown.ticks = 0 THEN q.countdown.date ELSE @]

\* startCountdown(); WEDDING_DATE_ISO is a valid date
startCountdown(q) ==
    IF \E e \in DOMAIN q.countdown.els : ~q.countdown.els[e] THEN q
    ELSE [tick(q) EXCEPT !.countdown.interval = TRUE]

\* String.prototype.trim, of spaces
RECURSIVE trimStart(_)
trimStart(v) == IF v # << >> /\ Head(v) = " " THEN trimStart(Tail(v)) ELSE v

RECURSIVE trimEnd(_)
trimEnd(v) == IF v # << >> /\ Last(v) = " " THEN trimEnd(Front(v)) ELSE v

trim(v) == trimEnd(trimStart(v))

serializeRSVP(q) ==
    [ name |-> IF q.rsvp.els.rsvpName THEN trim(q.rsvp.fields.name) ELSE << >>,
      message |-> IF q.rsvp.els.rsvpMessage THEN trim(q.rsvp.fields.message) ELSE << >>,
      attending |-> IF q.rsvp.els.rsvpAttend THEN trim(q.rsvp.fields.attending) ELSE << >>,
      lang |-> q.state.lang ]

setRSVPStatus(q, key) ==
    IF ~q.rsvp.els.rsvpStatus THEN q
    ELSE [q EXCEPT !.rsvp.status = [key |-> key, lang |-> q.state.lang]]

setRSVPLoading(q, isLoading) ==
    LET q1 == IF q.rsvp.els.rsvpSubmitBtn THEN [q EXCEPT !.rsvp.disabled = isLoading] ELSE q
    IN  IF q1.rsvp.els.rsvpForm
        THEN [q1 EXCEPT !.rsvp.ariaBusy = IF isLoading THEN "true" ELSE "false"]
        ELSE q1

\* els.rsvpForm.reset()
resetForm(q) == [q EXCEPT !.rsvp.fields = q.rsvp.defaults]

\* The submit listener that checks the name only
submitRSVPUnchecked(q) ==
    LET payload == serializeRSVP(q)
    IN  IF payload.name = << >> THEN q
        ELSE
          LET q1 == setRSVPStatus(setRSVPLoading(q, TRUE), "status.rsvpSending")
          IN  [q1 EXCEPT !.rsvp.inFlight = Append(@, payload), !.rsvp.sent = @ + 1]

\* The submit listener, up to its await: with an endpoint the request is on
\* its way when it returns
submitRSVP(q) ==
    LET payload == serializeRSVP(q)
    IN  IF payload.name = << >> \/ payload.attending = << >> THEN q
        ELSE
          LET q1 == setRSVPStatus(setRSVPLoading(q, TRUE), "status.rsvpSending")
          IN  IF RSVP_ENDPOINT # ""
              THEN [q1 EXCEPT !.rsvp.inFlight = Append(@, payload), !.rsvp.sent = @ + 1]
              ELSE IF RSVP_MAILTO_TO # ""
              THEN setRSVPLoading(resetForm(setRSVPStatus(
                       [q1 EXCEPT !.rsvp.mailed = @ + 1], "status.rsvpSent")), FALSE)
              ELSE setRSVPLoading(setRSVPStatus(
                       [q1 EXCEPT !.rsvp.saved = TRUE], "status.rsvpNotConfigured"), FALSE)

\* The submit listener that leaves the form busy when the request fails
settleRSVPBusy(q, k, outcome) ==
    LET q1 == [q EXCEPT !.rsvp.inFlight = RemoveAt(@, k)]
    IN  IF outcome = "ok"
        THEN setRSVPLoading(resetForm(setRSVPStatus(q1, "status.rsvpSent")), FALSE)
        ELSE setRSVPStatus(q1, "status.rsvpFailed")

\* The submit listener from its await on, for the k-th request in flight:
\* fetch() resolves with an ok response ("ok"), with another one ("http"), or
\* rejects ("rejected")
settleRSVP(q, k, outcome) ==
    LET q1 == [q EXCEPT !.rsvp.inFlight = RemoveAt(@, k)]
    IN  IF outcome = "ok"
        THEN setRSVPLoading(resetForm(setRSVPStatus(q1, "status.rsvpSent")), FALSE)
        ELSE setRSVPLoading(setRSVPStatus(q1, "status.rsvpFailed"), FALSE)

initRSVP(q) ==
    IF ~q.rsvp.els.rsvpForm THEN q ELSE [q EXCEPT !.listening = @ \cup {"rsvpForm"}]

\* init(), of the parts modelled
init(q) ==
    LET q1 == initRSVP(initGallery(fixBrideGroomSwapped(startCountdown(
                  initLangToggle(initMusicToggle(initOverlay(applyLanguage(q))))))))
    IN  [(IF ~q1.state.entered THEN stopMusic(q1)
          ELSE IF q1.els.bgMusic THEN [q1 EXCEPT !.bgMusic.playing = FALSE] ELSE q1)
            EXCEPT !.ready = TRUE]

\* The click listener of the language toggle
toggleLang(q) ==
    LET l == IF q.state.lang = "vi" THEN "en" ELSE "vi"
    IN  fixBrideGroomSwapped(applyLanguage(setLS([q EXCEPT !.state.lang = l], "lang", l)))

\* window.__wedding.setLang(l)
setLang(q, l) ==
    LET v == IF l = "en" THEN "en" ELSE "vi"
    IN  fixBrideGroomSwapped(applyLanguage(setLS([q EXCEPT !.state.lang = v], "lang", v)))

-----------------------------------------------------------------------------
(* Initial state: the script has run *)

\* The state the script leaves when it has run on a host with capabilities c
\* and generator state g
Loaded(c, g) ==
    LET on == ApiWired(c.canvas, c.reduceMotion, c.ctx)
    IN  [ host |-> c, wired |-> on, inited |-> FALSE, running |-> FALSE,
          hidden |-> FALSE, heroRect |-> [width |-> 800, height |-> 600],
          sfxEnabled |-> FALSE, now |-> 0,
          w |-> 0, h |-> 0,
          rafQueue |-> << >>, stepRafId |-> null, launchRafId |-> null,
          timers |-> << >>,
          lastTs |-> null, lastLaunch |-> 0,
          ignoreClicksUntil |-> 0, smokeParity |-> 0,
          fpsSmoothed |-> TARGET_FPS, quality |-> MAX_QUALITY,
          lastQualityTs |-> 0, lastResizeQualityCheck |-> 0,
          currentWind |-> IF on THEN qualityWind(g) ELSE 0,
          rockets |-> << >>, particles |-> << >>, smokePuffs |-> << >>,
          rocketPool |-> << >>, particlePool |-> << >>, smokePool |-> << >>,
          audioUnlocked |-> FALSE, lastPopMs |-> 0, popIndex |-> 0,
          rng |-> IF on THEN NextSeed(g) ELSE g,
          op |-> "init", lastDt |-> 0, firstTick |-> FALSE, created |-> NoneCreated,
          lastFrame |-> null, nTicks |-> 0, nEvents |-> 0, hist |-> NoHistory,
          page |-> Page(PlainMarkup, NoStorage) ]

\* The variables hold the state s
Holds(s) ==
    /\ host = s.host
    /\ wired = s.wired /\ inited = s.inited /\ running = s.running
    /\ hidden = s.hidden /\ heroRect = s.heroRect /\ sfxEnabled = s.sfxEnabled
    /\ now = s.now /\ w = s.w /\ h = s.h
    /\ rafQueue = s.rafQueue /\ stepRafId = s.stepRafId /\ launchRafId = s.launchRafId
    /\ timers = s.timers
    /\ lastTs = s.lastTs /\ lastLaunch = s.lastLaunch
    /\ ignoreClicksUntil = s.ignoreClicksUntil /\ smokeParity = s.smokeParity
    /\ fpsSmoothed = s.fpsSmoothed /\ quality = s.quality
    /\ lastQualityTs = s.lastQualityTs
    /\ lastResizeQualityCheck = s.lastResizeQualityCheck
    /\ currentWind = s.currentWind
    /\ rockets = s.rockets /\ particles = s.particles /\ smokePuffs = s.smokePuffs
    /\ rocketPool = s.rocketPool /\ particlePool = s.particlePool
    /\ smokePool = s.smokePool
    /\ audioUnlocked = s.audioUnlocked /\ lastPopMs = s.lastPopMs
    /\ popIndex = s.popIndex
    /\ rng = s.rng
    /\ op = s.op /\ lastDt = s.lastDt /\ firstTick = s.firstTick
    /\ created = s.created /\ lastFrame = s.lastFrame
    /\ nTicks = s.nTicks /\ nEvents = s.nEvents
    /\ hist = s.hist
    /\ page = s.page

Init ==
    \E c \in [canvas : BOOLEAN, reduceMotion : BOOLEAN, ctx : BOOLEAN] :
        \E g \in IF ApiWired(c.canvas, c.reduceMotion, c.ctx) THEN Seeds ELSE {0} :
            \E s \in {Loaded(c, g)} : Holds(s)

-----------------------------------------------------------------------------
(* Actions.  A call of the public api runs the wired handler, or the no-op  *)
(* the api was created with.  A DOM event runs its listener once initOnce   *)
(* has registered it.                                                       *)

\* The handler's result becomes the next state
Commit(s) == \E t \in {s} : Apply(t)

Event(s) == /\ nEvents < MaxEvents
            /\ Commit([s EXCEPT !.nEvents = @ + 1])

ApiStart ==
    \E celebrate \in BOOLEAN :
        LET s0 == Begin(State, "start")
        IN  Event(IF wired THEN Drawn(start(initOnce(s0), celebrate, rng)) ELSE s0)

ApiStop ==
    LET s0 == Begin(State, "stop")
    IN  Event(IF wired THEN stop(initOnce(s0)) ELSE s0)

ApiPause ==
    LET s0 == Begin(State, "pause")
    IN  Event(IF wired THEN pause(initOnce(s0)) ELSE s0)

ApiResume ==
    LET s0 == Begin(State, "resume")
    IN  Event(IF wired THEN Drawn(resume(initOnce(s0), rng)) ELSE s0)

ApiResize ==
    LET s0 == Begin(State, "resize")
    IN  Event(IF wired THEN resize(initOnce(s0)) ELSE s0)

ApiBurst ==
    \E a \in BurstArgs, rnd \in {Roll(rng)} :
        LET s0 == Begin(State, "burst")
        IN  Event(IF wired THEN Drawn(burst(initOnce(s0), a.x, a.y, rnd)) ELSE s0)

ApiUnlockSfx ==
    LET s0 == Begin(State, "unlockSfx")
    IN  Event(IF wired THEN unlockSfxOnce(initOnce(s0)) ELSE s0)

Click ==
    /\ inited
    /\ \E x \in ClickXs, rnd \in {Roll(rng)} :
          Event(Drawn(onClick(Begin(State, "click"), x, rnd)))

WindowResize ==
    /\ inited
    /\ Event(resize(Begin(State, "resize")))

VisibilityChange ==
    LET s0 == [Begin(State, "event") EXCEPT !.hidden = ~hidden]
    IN  Event(IF inited THEN Drawn(onVisibilityChange(s0, rng)) ELSE s0)

Blur ==
    /\ inited
    /\ Event(pause(Begin(State, "pause")))

Focus ==
    /\ inited
    /\ Event(Drawn(onFocus(Begin(State, "event"), rng)))

PageHide ==
    /\ inited
    /\ Event(pause(Begin(State, "pause")))

PageShow ==
    /\ inited
    /\ Event(Drawn(onFocus(Begin(State, "event"), rng)))

\* The hero box changes size (layout); nothing of the script runs
LayoutChange ==
    \E r \in HeroRects \ {heroRect} :
        Event([Begin(State, "event") EXCEPT !.heroRect = r])

\* The page switches window.sfxEnabled
SfxToggle ==
    Event([Begin(State, "event") EXCEPT !.sfxEnabled = ~sfxEnabled])

\* Time passes.  A due timer fires, and then a visible page delivers its pending
\* frame, before the clock is read again
Elapse(D) ==
    /\ nTicks < MaxTicks
    /\ \A i \in 1..Len(timers) : timers[i].due > now
    /\ rafQueue = << >> \/ hidden \/ lastFrame = now
    /\ \E d \in D :
          Commit([Begin(State, "advance") EXCEPT !.now = now + d, !.nTicks = @ + 1])

Advance == Elapse(Deltas)

\* The page is kept busy: the clock is read again only 300 ms or 1.2 s later
Stall == Elapse(StallDeltas)

Frame ==
    /\ rafQueue # << >>
    /\ ~hidden
    /\ lastFrame < now
    /\ \A i \in 1..Len(timers) : timers[i].due > now
    /\ \E rnd \in {Roll(rng)} :
          Commit(Drawn(runFrame([Begin(State, "frame") EXCEPT !.lastFrame = now],
                                { rafQueue[i].id : i \in 1..Len(rafQueue) }, now, rnd)))

\* The due timer that was set first (among those due earliest) fires
TimerFire ==
    /\ \E i \in 1..Len(timers) :
          /\ timers[i].due <= now
          /\ \A j \in 1..Len(timers) :
                \/ timers[j].due > timers[i].due
                \/ (timers[j].due = timers[i].due /\ j >= i)
          /\ \E rnd \in {Roll(rng)} :
                Commit(Drawn(runTimer([Begin(State, "timer") EXCEPT !.timers = RemoveAt(@, i)],
                                      timers[i], rnd)))

Next ==
    \/ ApiStart \/ ApiStop \/ ApiPause \/ ApiResume \/ ApiResize \/ ApiBurst
    \/ ApiUnlockSfx
    \/ Click \/ WindowResize \/ VisibilityChange \/ Blur \/ Focus
    \/ PageHide \/ PageShow \/ LayoutChange \/ SfxToggle
    \/ Advance \/ Frame \/ TimerFire

Spec == Init /\ [][Next]_vars


-----------------------------------------------------------------------------
(* The encore: a first show on a wired host was started with its            *)
(* celebration, clicked once after 600 ms and stopped, and api.start() has  *)
(* begun the second show.  The pools hold the records of the first.         *)

WiredHost == [canvas |-> TRUE, reduceMotion |-> FALSE, ctx |-> TRUE]

\* The state api.start(celebrate) leaves on a page loaded with generator state g
Started(g, celebrate) ==
    Drawn(start(initOnce(Begin(Loaded(WiredHost, g), "start")), celebrate,
                NextSeed(g)))

\* The timer set first fires
FireFirst(s) ==
    Drawn(runTimer([Begin(s, "timer") EXCEPT !.timers = Tail(@)],
                   Head(s.timers), Roll(s.rng)))

Clicked(s) == Drawn(onClick(Begin(s, "click"), 100, Roll(s.rng)))

StartedAgain(s) == Drawn(start(Begin(s, "start"), TRUE, s.rng))

FirstShow(g) ==
    Clicked(FireFirst(FireFirst(FireFirst([Started(g, TRUE) EXCEPT !.now = 600]))))

Encore(g) == StartedAgain(stop(Begin(FirstShow(g), "stop")))

InitEncore == \E g \in Seeds : \E s \in {Encore(g)} : Holds(s)

NextEncore == ApiBurst \/ Click \/ Advance \/ Frame \/ TimerFire

SpecEncore == InitEncore /\ [][NextEncore]_vars

-----------------------------------------------------------------------------
(* The opening: api.start() has run on a wired host; the page gets focus,   *)
(* is clicked, and is kept busy between frames.                             *)

InitOpening ==
    \E g \in Seeds, celebrate \in BOOLEAN :
        \E s \in {Started(g, celebrate)} : Holds(s)

NextOpening ==
    \/ ApiPause \/ ApiResume \/ Focus \/ Click
    \/ Stall \/ Frame \/ TimerFire

SpecOpening == InitOpening /\ [][NextOpening]_vars

-----------------------------------------------------------------------------
(* The launches: a show without celebration was started over a hero box of   *)
(* desktop or of narrow width, and the page delivers a frame every 1.2 s or  *)
(* 1.8 s, LaunchTicks times, while it may be paused, resumed and clicked.    *)

LaunchTicks == 3
LaunchDeltas == {1200, 1800}
LaunchRects == { r \in HeroRects : r.width >= 10 /\ r.height >= 10 }

StartedOver(r, g) ==
    Drawn(start(initOnce(Begin([Loaded(WiredHost, g) EXCEPT !.heroRect = r], "start")),
                FALSE, NextSeed(g)))

InitLaunch == \E g \in Seeds, r \in LaunchRects : \E s \in {StartedOver(r, g)} : Holds(s)

Linger ==
    /\ nTicks < LaunchTicks
    /\ \A i \in 1..Len(timers) : timers[i].due > now
    /\ rafQueue = << >> \/ hidden \/ lastFrame = now
    /\ \E d \in LaunchDeltas :
          Commit([Begin(State, "advance") EXCEPT !.now = now + d, !.nTicks = @ + 1])

NextLaunch == Linger \/ Frame \/ ApiPause \/ ApiResume \/ Click

SpecLaunch == InitLaunch /\ [][NextLaunch]_vars

-----------------------------------------------------------------------------
(* The flight: a show without celebration was started, its first frame came *)
(* 600 ms later, a click launched rockets, and FlightFrames frames followed *)
(* at 33 ms from each other.  The rockets are on their way up.              *)

FlightFrames == 5

\* The frame that the host delivers d ms after the state s
Ticked(s, d) ==
    Drawn(runFrame([Begin(s, "frame") EXCEPT !.now = s.now + d, !.lastFrame = s.now + d],
                   { s.rafQueue[i].id : i \in 1..Len(s.rafQueue) },
                   s.now + d, Roll(s.rng)))

RECURSIVE TickedTimes(_, _, _)
TickedTimes(s, d, n) ==
    IF n = 0 THEN s ELSE TickedTimes(Ticked(s, d), d, n - 1)

Flight(g) ==
    [TickedTimes(Clicked(Ticked(Started(g, FALSE), 600)), 33, FlightFrames)
        EXCEPT !.nTicks = 0, !.nEvents = 0]

InitFlight == \E g \in Seeds : \E s \in {Flight(g)} : Holds(s)

NextFlight == ApiStop \/ ApiPause \/ ApiBurst \/ Click \/ Advance \/ Frame

SpecFlight == InitFlight /\ [][NextFlight]_vars

\* The ascent: the same flight on a page that stays visible and is left alone.
\* requestAnimationFrame delivers the frame requested by step() and
\* autoLaunch() at the rate of the display, every 8, 16 or 33 ms, as long as
\* the show is running.
AscentTicks == 40
AscentDeltas == {8, 16, 33}

Ascend ==
    /\ running /\ ~hidden
    /\ rafQueue # << >>
    /\ nTicks < AscentTicks
    /\ \E d \in AscentDeltas :
          /\ hist.delta \in {null, d}
          /\ Commit([Ticked(State, d) EXCEPT !.nTicks = nTicks + 1,
                                             !.hist.delta = d])

NextAscent == Ascend

\* No frame is due any more: the show is not running, the page is hidden, no
\* frame is requested, or the ascent is over
AscentOver == ~(running /\ ~hidden /\ rafQueue # << >> /\ nTicks < AscentTicks)

\* The frames that are due are delivered: weak fairness of Ascend, with
\* ENABLED <<Ascend>>_vars written out as ~AscentOver
FairAscent ==
    /\ InitFlight /\ [][NextAscent]_vars
    /\ ([]<>AscentOver \/ []<><<Ascend>>_vars)

-----------------------------------------------------------------------------
(* The sound check: on a wired host the sound was unlocked by                *)
(* api.unlockSfx() and the page has switched window.sfxEnabled on.           *)

Tuned(g) ==
    [unlockSfxOnce(initOnce(Begin(Loaded(WiredHost, g), "unlockSfx")))
        EXCEPT !.sfxEnabled = TRUE]

InitSound == \E g \in Seeds : \E s \in {Tuned(g)} : Holds(s)

NextSound == ApiStart \/ ApiBurst \/ SfxToggle \/ Advance \/ Frame \/ TimerFire

SpecSound == InitSound /\ [][NextSound]_vars

-----------------------------------------------------------------------------
(* The load: from the state resetPerf() leaves, updateQuality() is called   *)
(* LoadTicks times with one frame delta, of a frame rate below 60.          *)

LoadTicks == 200
LoadDeltas == {17, 20, 33, 50, 100, 120, 250}
LoadStarts == {0, 5000}                 \* performance.now() at the reset

UnderLoad(g, t0) ==
    resetPerf([Begin(Loaded(WiredHost, g), "reset") EXCEPT !.now = t0])

InitLoad == \E g \in {0}, t0 \in LoadStarts : \E s \in {UnderLoad(g, t0)} : Holds(s)

\* The next tick: updateQuality(ts, deltaMs) with the delta of the ticks before
LoadTick ==
    /\ nTicks < LoadTicks
    /\ \E d \in LoadDeltas :
          /\ hist.delta \in {null, d}
          /\ Commit(updateQuality(
                 [Begin(State, "tick") EXCEPT !.now = now + d, !.nTicks = @ + 1,
                                             !.hist.delta = d],
                 now + d, d))

NextLoad == LoadTick

SpecLoad == InitLoad /\ [][NextLoad]_vars

-----------------------------------------------------------------------------
(* The volley: a show without celebration was started, its first frame came *)
(* 600 ms later, and api.burst() was called FarBursts times at a point out  *)
(* of the smoke margin on the right and VolleyBursts times without          *)
(* arguments.                                                               *)

FarBursts == 4
VolleyBursts == 60

\* api.burst(x, y) on the state s
Bursted(s, x, y) == Drawn(burst(Begin(s, "burst"), x, y, Roll(s.rng)))

RECURSIVE BurstedTimes(_, _, _, _)
BurstedTimes(s, x, y, n) ==
    IF n = 0 THEN s
    ELSE IF n = 1 THEN Bursted(s, x, y)
    ELSE LET s1 == BurstedTimes(s, x, y, n \div 2)
         IN  After(s1, BurstedTimes(s1, x, y, n - n \div 2))

Volley(g) ==
    [BurstedTimes(BurstedTimes(Ticked(Started(g, FALSE), 600),
                               innerWidth + 500, 300, FarBursts),
                  null, null, VolleyBursts)
        EXCEPT !.nTicks = 0, !.nEvents = 0]

InitVolley == \E g \in Seeds : \E s \in {Volley(g)} : Holds(s)

NextVolley == ApiBurst \/ Advance \/ Frame

SpecVolley == InitVolley /\ [][NextVolley]_vars

-----------------------------------------------------------------------------
(* The strain: a show without celebration was started, its first frame came *)
(* 600 ms later, api.burst() was called twice and the page was clicked;     *)
(* then frames came 250 ms apart, as on a device that cannot keep up, until *)
(* the quality was about to fall below 0.92.  Frames go on coming, 33 or    *)
(* 250 ms apart, and the show is paused and resumed.                        *)

StrainFrames == 11
StrainDeltas == {33, 250}
StrainTicks == 6

\* The frames that the host delivers d ms from each other, n times
RECURSIVE TickedOn(_, _, _)
TickedOn(s, d, n) ==
    IF n = 0 THEN s
    ELSE IF n = 1 THEN Ticked(s, d)
    ELSE LET s1 == TickedOn(s, d, n \div 2)
         IN  After(s1, TickedOn(s1, d, n - n \div 2))

Strained(g) ==
    [TickedOn(Clicked(BurstedTimes(Ticked(Started(g, FALSE), 600), null, null, 2)),
              250, StrainFrames)
        EXCEPT !.nTicks = 0, !.nEvents = 0]

InitStrain == \E g \in Seeds : \E s \in {Strained(g)} : Holds(s)

Strain ==
    /\ running /\ ~hidden
    /\ rafQueue # << >>
    /\ nTicks < StrainTicks
    /\ \E d \in StrainDeltas :
          Commit([Ticked(State, d) EXCEPT !.nTicks = nTicks + 1])

NextStrain == Strain \/ ApiPause \/ ApiResume

SpecStrain == InitStrain /\ [][NextStrain]_vars

-----------------------------------------------------------------------------
(* The invitation: script.js has run on some markup with some localStorage; *)
(* init() runs when the document is ready, and the guest clicks the card,   *)
(* the seal and the toggles; the developer helpers of window.__wedding are  *)
(* called.                                                                  *)

Markups ==
    { m \in [ els : [ body : BOOLEAN, overlay : BOOLEAN, inviteCard : BOOLEAN,
                      sealBtn : BOOLEAN, langToggle : {TRUE}, musicToggle : {TRUE},
                      bgMusic : {TRUE} ],
              overlayHidden : BOOLEAN, bodyLocked : BOOLEAN,
              brideImg : [present : BOOLEAN, src : {"groom.jpg"}],
              groomImg : [present : {TRUE}, src : {"", "bride.jpg"}] ] :
        \* a script in the head finds no element, not even the body
        ~m.els.body => (~m.els.overlay /\ ~m.els.inviteCard /\ ~m.els.sealBtn) }

Storages == [entered : {"none", "0", "1"}, lang : {"none", "en", "fr"}, music : {"none", "1"}]

Langs == {"en", "vi", "fr"}

InitPage ==
    \E m \in Markups, st \in Storages :
        \E s \in {[Loaded(WiredHost, 0) EXCEPT !.page = Page(m, st)]} : Holds(s)

\* onReady(init): DOMContentLoaded, or the timeout of 0 ms
PageReady ==
    /\ ~page.ready
    /\ Commit([Begin(State, "init") EXCEPT !.page = init(page)])

SealClick ==
    /\ "sealBtn" \in page.listening
    /\ \E allowed \in BOOLEAN :
          Commit([Begin(State, "seal") EXCEPT !.page = enterSite(page, allowed)])

CardClick ==
    /\ "inviteCard" \in page.listening
    /\ Commit([Begin(State, "flip") EXCEPT
                  !.page = setInviteFlipped(page, ~page.inviteCard.flipped)])

LangToggleClick ==
    /\ "langToggle" \in page.listening
    /\ Commit([Begin(State, "lang") EXCEPT !.page = toggleLang(page)])

MusicToggleClick ==
    /\ "musicToggle" \in page.listening
    /\ \E allowed \in BOOLEAN :
          Commit([Begin(State, "music") EXCEPT
                     !.page = setMusicOn(page, ~page.state.musicOn, allowed)])

SetLang ==
    \E l \in Langs :
        Commit([Begin(State, "setLang") EXCEPT !.page = setLang(page, l),
                                               !.created.asked = l])

ResetEnter ==
    Commit([Begin(State, "resetEnter") EXCEPT !.page = removeLS(page, "entered")])

-----------------------------------------------------------------------------
(* The gallery: a page whose viewer shows 0, 1, 2, 3 or 10 images, with or   *)
(* without its arrows and its stage, is loaded, and the visitor uses them.   *)

ImageCounts == {0, 1, 2, 3, GALLERY_IMAGES}
Keys == {"ArrowLeft", "ArrowRight", "Enter"}

InitGallery ==
    \E n \in ImageCounts, prev \in BOOLEAN, next \in BOOLEAN, stage \in BOOLEAN :
        \E s \in {[Loaded(WiredHost, 0) EXCEPT !.page =
                      [Page(PlainMarkup, NoStorage) EXCEPT
                          !.gallery.images = n,
                          !.gallery.els = [ galleryMainImg |-> TRUE, galleryThumbs |-> TRUE,
                                            galleryPrev |-> prev, galleryNext |-> next,
                                            galleryStage |-> stage ]]]} : Holds(s)

GalleryPrevClick ==
    /\ "galleryPrev" \in page.listening
    /\ Commit([Begin(State, "gallery") EXCEPT
                  !.page = setGalleryIndex(page, page.state.galleryIndex - 1, "prev")])

GalleryNextClick ==
    /\ "galleryNext" \in page.listening
    /\ Commit([Begin(State, "gallery") EXCEPT
                  !.page = setGalleryIndex(page, page.state.galleryIndex + 1, "next")])

GalleryKeydown ==
    /\ "galleryStage" \in page.listening
    /\ \E key \in Keys :
          Commit([Begin(State, "gallery") EXCEPT !.page = galleryKey(page, key)])

ThumbClick ==
    /\ "galleryThumb" \in page.listening
    /\ \E idx \in 0..(page.gallery.thumbs - 1) :
          Commit([Begin(State, "gallery") EXCEPT
                     !.page = setGalleryIndex(page, idx, "thumb")])

NextGallery ==
    \/ PageReady \/ GalleryPrevClick \/ GalleryNextClick \/ GalleryKeydown
    \/ ThumbClick \/ LangToggleClick

SpecGallery == InitGallery /\ [][NextGallery]_vars

-----------------------------------------------------------------------------
(* The RSVP: a page with the form is loaded; the visitor fills it in and     *)
(* submits it, up to MaxSubmits requests are sent, and each is settled.      *)

MaxSubmits == 2
Names == { << >>, << " " >>, << "A" >>, << " ", "A", " " >> }
Attendings == { << >>, << " " >>, << "yes" >> }
Messages == { << >>, << "hi" >> }
Outcomes == {"ok", "http", "rejected"}

InitRsvp ==
    \E btn \in BOOLEAN, name \in BOOLEAN, attend \in Attendings :
        \E s \in {[Loaded(WiredHost, 0) EXCEPT !.page =
                      [Page(PlainMarkup, NoStorage) EXCEPT
                          !.rsvp.els = [ rsvpForm |-> TRUE, rsvpName |-> name,
                                         rsvpAttend |-> TRUE, rsvpMessage |-> TRUE,
                                         rsvpSubmitBtn |-> btn, rsvpStatus |-> TRUE ],
                          !.rsvp.fields.attending = attend,
                          !.rsvp.defaults.attending = attend]]} : Holds(s)

\* The visitor edits a field
RsvpInput ==
    \/ \E v \in Names :
          Commit([Begin(State, "input") EXCEPT !.page.rsvp.fields.name = v])
    \/ \E v \in Attendings :
          Commit([Begin(State, "input") EXCEPT !.page.rsvp.fields.attending = v])
    \/ \E v \in Messages :
          Commit([Begin(State, "input") EXCEPT !.page.rsvp.fields.message = v])

\* The form is submitted; a disabled submit button submits nothing
RsvpSubmit ==
    /\ "rsvpForm" \in page.listening
    /\ ~(page.rsvp.els.rsvpSubmitBtn /\ page.rsvp.disabled)
    /\ page.rsvp.sent < MaxSubmits
    /\ Commit([Begin(State, "submit") EXCEPT !.page = submitRSVP(page)])

\* fetch() settles
RsvpSettle ==
    \E k \in 1..Len(page.rsvp.inFlight), outcome \in Outcomes :
        Commit([Begin(State, "settle") EXCEPT !.page = settleRSVP(page, k, outcome)])

NextRsvp == PageReady \/ RsvpInput \/ RsvpSubmit \/ RsvpSettle \/ LangToggleClick

SpecRsvp == InitRsvp /\ [][NextRsvp]_vars

\* Every request is settled: fetch() resolves or rejects in the end
FairRsvp ==
    /\ InitRsvp /\ [][NextRsvp]_vars
    /\ ([]<>(page.rsvp.inFlight = << >>) \/ []<><<RsvpSettle>>_vars)

-----------------------------------------------------------------------------
(* The music: the page of the plain markup is loaded with any storage; the   *)
(* visitor clicks the seal and the toggles, and the console sets the music.  *)

InitMusic ==
    \E st \in Storages :
        \E s \in {[Loaded(WiredHost, 0) EXCEPT !.page = Page(PlainMarkup, st)]} : Holds(s)

\* window.__wedding.setMusic(on)
SetMusic ==
    \E on \in BOOLEAN, allowed \in BOOLEAN :
        Commit([Begin(State, "setMusic") EXCEPT !.page = setMusicOn(page, on, allowed)])

NextMusic == PageReady \/ SealClick \/ MusicToggleClick \/ LangToggleClick \/ SetMusic

SpecMusic == InitMusic /\ [][NextMusic]_vars

-----------------------------------------------------------------------------
(* The language: the page of the plain markup is loaded with any storage,    *)
(* one that takes writes or one that refuses them; the visitor clicks the    *)
(* language toggle and the console sets the language.                        *)

InitLang ==
    \E st \in Storages, writable \in BOOLEAN :
        \E s \in {[Loaded(WiredHost, 0) EXCEPT
                      !.page = [Page(PlainMarkup, st) EXCEPT !.writable = writable]]} :
            Holds(s)

NextLang == PageReady \/ LangToggleClick \/ SetLang \/ MusicToggleClick

SpecLang == InitLang /\ [][NextLang]_vars

-----------------------------------------------------------------------------
(* The countdown: a page with the four boxes (or without the seconds' box)   *)
(* is loaded some time before, at or after the wedding date, and the         *)
(* interval fires MaxCountdownTicks times, on time, late, or an hour or a    *)
(* day late.                                                                 *)

MaxCountdownTicks == 4

\* The instant d days, s seconds and ms milliseconds before the wedding date
Before(d, s, ms) ==
    [ s |-> WEDDING_DATE.s - d * 86400 - s - (IF ms > 0 THEN 1 ELSE 0),
      ms |-> IF ms > 0 THEN 1000 - ms ELSE 0 ]

CountdownStarts ==
    { Before(100, 3 * 3600 + 4 * 60 + 5, 250), Before(1, 0, 0), Before(0, 86399, 999),
      Before(0, 3601, 0), Before(0, 2, 500), Before(0, 0, 1), WEDDING_DATE,
      Later(WEDDING_DATE, 3600000) }

TickDelays == {1000, 1004, 3600000, 86400000}

InitCountdown ==
    \E d \in CountdownStarts, secs \in BOOLEAN :
        \E s \in {[Loaded(WiredHost, 0) EXCEPT !.page =
                      [Page(PlainMarkup, NoStorage) EXCEPT
                          !.countdown.els = [cdDays |-> TRUE, cdHours |-> TRUE,
                                             cdMins |-> TRUE, cdSecs |-> secs],
                          !.countdown.date = d]]} : Holds(s)

\* The interval of startCountdown fires, a second or more after the last tick
CountdownTick ==
    /\ page.countdown.interval
    /\ page.countdown.ticks <= MaxCountdownTicks
    /\ \E d \in TickDelays :
          Commit([Begin(State, "tick") EXCEPT
                     !.page = tick([page EXCEPT !.countdown.date = Later(@, d)])])

NextCountdown == PageReady \/ CountdownTick

SpecCountdown == InitCountdown /\ [][NextCountdown]_vars

NextPage ==
    \/ PageReady \/ SealClick \/ CardClick \/ LangToggleClick
    \/ MusicToggleClick \/ SetLang \/ ResetEnter

SpecPage == InitPage /\ [][NextPage]_vars

-----------------------------------------------------------------------------
(* Properties *)

\* The particle capacity at quality q: BASE_MAX_PARTICLES scaled by
\* lerp(0.55, 1.0, q), floored, within [22, BASE_MAX_PARTICLES]
ParticleCapacity(q) ==
    clamp((BASE_MAX_PARTICLES * lerp(5500, 10000, q)) \div 10000, 22, BASE_MAX_PARTICLES)

\* C1 as stated: in every state particles.length is at most maxParticlesCap()
\* at the current quality
C1_CountWithinCap == Len(particles) <= maxParticlesCap(quality)

\* C1, amended: no handler raises particles.length above the capacity at the
\* current quality (a step in which the count grew leaves it at most
\* the capacity at the quality it leaves), and the count never exceeds
\* BASE_MAX_PARTICLES; the count exceeds the capacity only after the quality,
\* and with it the capacity, dropped under particles already live
C1_GrowthWithinCap ==
    [][ /\ Len(particles') > Len(particles)
            => Len(particles') <= ParticleCapacity(quality')
        /\ Len(particles') <= BASE_MAX_PARTICLES ]_vars

\* A burst has filled the particles up to a capacity lowered by the quality
C1_Witness ==
    /\ op = "burst"
    /\ quality < MAX_QUALITY
    /\ Len(created.particles) > 0
    /\ Len(particles) = ParticleCapacity(quality)
    /\ Len(particles) < BASE_MAX_PARTICLES

\* A handler that has run burst() to its explodeBurst(): api.burst() on a wired
\* host or a celebration timer, with a canvas of at least 10 x 10
BurstRan ==
    /\ wired
    /\ op' \in {"burst", "timer"}
    /\ w' >= 10 /\ h' >= 10

\* C2: every pattern intends more particles than any capacity leaves room for,
\* so an explodeBurst with L <= C particles live appends exactly C - L new
\* particles and leaves exactly C live
C2_BurstFillsToCap ==
    [][ (BurstRan /\ Len(particles) <= maxParticlesCap(quality))
            => /\ Len(created'.particles) = maxParticlesCap(quality) - Len(particles)
               /\ particles' = particles \o created'.particles
               /\ Len(particles') = maxParticlesCap(quality') ]_vars

\* A burst found some particles live and room for some more
C2_Witness ==
    /\ op \in {"burst", "timer"}
    /\ Len(created.particles) > 0
    /\ Len(created.particles) < Len(particles)
    /\ Len(particles) = maxParticlesCap(quality)

\* C3: stop() leaves the three live lists empty, each pool extended by the
\* records that were live (in the order the loops pop them), running false
\* and no frame callback pending
C3_StopReleasesAll ==
    [][ op' = "stop"
            => /\ rockets' = << >> /\ particles' = << >> /\ smokePuffs' = << >>
               /\ rocketPool' = rocketPool \o Reverse(rockets)
               /\ particlePool' = particlePool \o Reverse(particles)
               /\ smokePool' = smokePool \o Reverse(smokePuffs)
               /\ ~running'
               /\ rafQueue' = << >> ]_vars

\* stop() has released particles and smoke of a running show
C3_Witness ==
    /\ op = "stop"
    /\ Len(particlePool) > 0
    /\ Len(smokePool) > 0

\* C4: pause() and resume() leave the live lists and the pools as they are
C4_PauseResumeKeepEntities ==
    [][ op' \in {"pause", "resume"}
            => /\ rockets' = rockets /\ particles' = particles
               /\ smokePuffs' = smokePuffs
               /\ rocketPool' = rocketPool /\ particlePool' = particlePool
               /\ smokePool' = smokePool ]_vars

\* resume() has run with particles and smoke live
C4_Witness ==
    /\ op = "resume"
    /\ Len(particles) > 0
    /\ Len(smokePuffs) > 0

\* C5: the simulated time-step of every tick is within [0, 33 ms], and the
\* first tick after start() or resume() has a time-step of 0
C5_StepClamped ==
    [][ /\ lastDt' \in 0..DT_MAX
        /\ (firstTick /\ ~firstTick') => lastDt' = 0 ]_vars

\* The first tick after a resume() that came 600 ms or more after the last tick
C5_Witness ==
    /\ op = "frame"
    /\ lastDt = 0
    /\ lastTs = now
    /\ fpsSmoothed # TARGET_FPS
    /\ lastLaunch >= 600
    /\ ignoreClicksUntil = lastLaunch + RESUME_IGNORE_CLICKS_MS

Pending(fn) == Cardinality({ i \in 1..Len(rafQueue) : rafQueue[i].fn = fn })

\* C7: while running, exactly one step and one autoLaunch callback are pending,
\* under the handles stepRafId and launchRafId; while not running, none
C7_OneCallbackPerChain ==
    IF running
    THEN /\ Pending("step") = 1 /\ Pending("autoLaunch") = 1
         /\ \E i \in 1..Len(rafQueue) :
               rafQueue[i].fn = "step" /\ rafQueue[i].id = stepRafId
         /\ \E i \in 1..Len(rafQueue) :
               rafQueue[i].fn = "autoLaunch" /\ rafQueue[i].id = launchRafId
    ELSE rafQueue = << >>

\* resume() has run on a show that was running with its callbacks pending,
\* after a frame was delivered
C7_Witness ==
    /\ running
    /\ op = "resume"
    /\ lastFrame # null
    /\ nEvents >= 2

\* The script's own state: everything but the host's side (clock, visibility,
\* layout, sfx switch) and the history variables
ScriptState ==
    << inited, running, w, h, rafQueue, stepRafId, launchRafId, timers,
       lastTs, lastLaunch, ignoreClicksUntil, smokeParity, fpsSmoothed, quality,
       lastQualityTs, lastResizeQualityCheck, currentWind,
       rockets, particles, smokePuffs, rocketPool, particlePool, smokePool,
       audioUnlocked, lastPopMs, popIndex, rng >>

\* C9: on a host without canvas, with the reduced-motion preference, or without
\* 2D context, no step changes the script's state: no listener is registered
\* (inited stays false), no callback or timer is scheduled
C9_UnwiredNoop ==
    [][ (~host.canvas \/ host.reduceMotion \/ ~host.ctx)
            => /\ ScriptState' = ScriptState
               /\ ~inited' /\ rafQueue' = << >> /\ timers' = << >> ]_vars

\* api.burst() was called after another operation on a host with a canvas and
\* a 2D context and the reduced-motion preference
C9_Witness ==
    /\ host.canvas /\ host.ctx /\ host.reduceMotion
    /\ op = "burst"
    /\ nEvents = MaxEvents

\* The records of one kind that the last handler put into its live list
FullyAssigned(recs, fields) ==
    \A i \in 1..Len(recs) : recs[i].asg = fields

\* C10: every record the last handler put into a live list, fresh or off the
\* pool, had all its fields assigned by that creation; a particle or smoke puff
\* has life = maxLife, a particle and a rocket px = x and py = y, a rocket
\* broke = false
C10_NoResidualFields ==
    /\ FullyAssigned(created.rockets, RocketFields)
    /\ FullyAssigned(created.particles, ParticleFields)
    /\ FullyAssigned(created.smoke, SmokeFields)
    /\ \A i \in 1..Len(created.rockets) :
          LET r == created.rockets[i]
          IN  ~r.broke /\ r.px = r.x /\ r.py = r.y
    /\ \A i \in 1..Len(created.particles) :
          LET p == created.particles[i]
          IN  p.life = p.maxLife /\ p.px = p.x /\ p.py = p.y
    /\ \A i \in 1..Len(created.smoke) :
          created.smoke[i].life = created.smoke[i].maxLife

\* A click has launched a rocket off the pool, while particles and a smoke puff
\* off their pools are live
C10_Witness ==
    /\ op = "click"
    /\ \E i \in 1..Len(created.rockets) : created.rockets[i].reused
    /\ \E i \in 1..Len(particles) : particles[i].reused
    /\ \E i \in 1..Len(smokePuffs) : smokePuffs[i].reused

\* The records of one kind that exist, live ones first
Held(live, pool) == live \o pool

\* No two places of the live list and the pool hold the same record
OneOwner(live, pool) ==
    \A i, j \in 1..Len(Held(live, pool)) :
        i # j => Held(live, pool)[i].id # Held(live, pool)[j].id

\* C11: every rocket, particle and smoke record is held once: in its live list
\* or in its pool, never in both and never twice
C11_OneOwner ==
    /\ OneOwner(rockets, rocketPool)
    /\ OneOwner(particles, particlePool)
    /\ OneOwner(smokePuffs, smokePool)

\* A rocket has detonated, and a tick that removed particles from the list
\* has added particles to it
C11_Witness ==
    /\ op = "frame"
    /\ Len(rocketPool) > 0
    /\ Len(created.particles) > 0
    /\ Len(particlePool) > 0
\* C12: a click launches a rocket only while running, 600 ms or more after the
\* last start() and 250 ms or more after the last resume() since
C12_ClickOutsideWindows ==
    [][ (op' = "click" /\ Len(created'.rockets) > 0)
            => /\ running
               /\ hist.startedAt = null \/ now >= hist.startedAt + IGNORE_CLICKS_MS
               /\ hist.resumedAt = null
                     \/ now >= hist.resumedAt + RESUME_IGNORE_CLICKS_MS ]_vars
\* The pending timers of q that run a celebration burst
Celebrations(q) ==
    SelectSeq(q, LAMBDA t : t.fn \in {"celebrate1", "celebrate2", "celebrate3"})

\* The timers start() sets for its celebration at time t
CelebrationAt(t) ==
    << [due |-> t + 90, fn |-> "celebrate1", x |-> null, y |-> null, hue |-> null],
       [due |-> t + 170, fn |-> "celebrate2", x |-> null, y |-> null, hue |-> null],
       [due |-> t + 240, fn |-> "celebrate3", x |-> null, y |-> null, hue |-> null] >>

\* C13: start() with celebrate true (or omitted) adds exactly the three
\* celebration timers, due 90, 170 and 240 ms later; with celebrate false it
\* adds no timer; no other handler adds a celebration timer
C13_CelebrationTimers ==
    [][ IF wired /\ op' = "start"
        THEN IF hist'.celebrate
             THEN timers' = timers \o CelebrationAt(now)
             ELSE timers' = timers
        ELSE Len(Celebrations(timers')) <= Len(Celebrations(timers)) ]_vars

\* start() without celebration has run while the three timers of an earlier
\* start() with celebration were pending
C13_Witness ==
    /\ op = "start"
    /\ ~hist.celebrate
    /\ timers = CelebrationAt(0)
\* A show on a desktop-width surface that was not paused or resumed since its
\* start()
DesktopRun ==
    /\ running
    /\ w >= 600 /\ h >= 10
    /\ hist.startedAt # null
    /\ hist.pausedAt = null /\ hist.resumedAt = null

BurstAccepted ==
    created'.bursts = << chooseBurstKind(Roll(rng).kind) >>

\* The step is a call of api.burst() that left the fireworks as they were
BurstRejected ==
    /\ created' = NoneCreated
    /\ particles' = particles /\ smokePuffs' = smokePuffs /\ rockets' = rockets
    /\ particlePool' = particlePool /\ smokePool' = smokePool
    /\ rocketPool' = rocketPool
    /\ timers' = timers /\ rafQueue' = rafQueue /\ running' = running
    /\ popIndex' = popIndex /\ lastPopMs' = lastPopMs

\* C15 as stated: api.burst() is accepted in every lifecycle state when the
\* surface has nonzero area (w > 0 and h > 0), and rejected only when it has none
C15_BurstOnAnyArea ==
    [][ (wired /\ op' = "burst")
            => IF w' > 0 /\ h' > 0 THEN BurstAccepted ELSE BurstRejected ]_vars

\* C15: api.burst() is accepted in every lifecycle state when the surface is
\* at least 10 wide and 10 high, and rejected without a change otherwise
C15_BurstOnSizedSurface ==
    [][ (wired /\ op' = "burst")
            => IF w' >= 10 /\ h' >= 10 THEN BurstAccepted ELSE BurstRejected ]_vars

\* api.burst() was rejected on a surface 5 wide
C15_Witness ==
    /\ wired
    /\ op = "burst"
    /\ w = 5 /\ h > 0
    /\ created = NoneCreated
\* The requests of the step that played a pop
Played(pops) == { i \in 1..Len(pops) : pops[i] }

\* C16: a handler plays a pop at most once, and only 120 ms or more after the
\* last pop played; a request that comes earlier is dropped, and a step that
\* plays none leaves the round-robin index and the time of the last pop alone
C16_PopsApart ==
    [][ /\ Cardinality(Played(created'.pops)) <= 1
        /\ Played(created'.pops) # {}
              => /\ now' - lastPopMs >= POP_GAP_MS
                 /\ lastPopMs' = now'
                 /\ popIndex' = (popIndex + 1) % PopPoolLen
        /\ Played(created'.pops) = {}
              => lastPopMs' = lastPopMs /\ popIndex' = popIndex
        /\ now' - lastPopMs < POP_GAP_MS => Played(created'.pops) = {} ]_vars

\* A pop was played before, and a request less than 120 ms after it was dropped
C16_Witness ==
    /\ audioUnlocked /\ sfxEnabled
    /\ lastPopMs > 0
    /\ now - lastPopMs < POP_GAP_MS
    /\ created.pops = << FALSE >>
\* qualityFromFps of the frame rate of a frame delta d (ms)
ImpliedQuality(d) == qualityFromFps(1000000 \div d)

\* C17: fed one frame delta of a frame rate below 60 from the reset state,
\* updateQuality() never raises the quality and never takes it below
\* qualityFromFps of that frame rate
C17_QualityDescends ==
    [][ op' = "tick"
          => /\ quality' <= quality
             /\ quality' >= ImpliedQuality(hist'.delta) ]_vars

\* The quality has come down at a tick, and came down at an earlier one, under
\* a frame rate whose implied quality lies above the floor
C17_Witness ==
    /\ op = "tick"
    /\ lastQualityTs = now
    /\ ImpliedQuality(hist.delta) > MIN_QUALITY
    /\ quality < 9000
    /\ quality > ImpliedQuality(hist.delta)
\* The records r and q agree on the fields named
SameValues(r, q, fields) == \A f \in fields : r[f] = q[f]

\* C18 as stated: what allocRocket, allocParticle and allocSmoke return has
\* the field values of a newly constructed record, off the pool or not
C18_AcquireDefaults ==
    /\ SameValues(allocRocket(State).rec, newRocket(0), RocketFields)
    /\ SameValues(allocParticle(State).rec, baseParticle(0), ParticleFields)
    /\ SameValues(allocSmoke(State).rec, newSmoke(0), SmokeFields)

\* What alloc returned in a state with pool: off an empty pool a new record
\* with the default values, else the record released last, with the values it
\* was released with, which leaves the pool
AsReleased(a, pool, new, fields) ==
    IF pool = << >>
    THEN ~a.rec.reused /\ SameValues(a.rec, new, fields)
    ELSE a.rec.reused /\ a.rec.id = Last(pool).id
         /\ SameValues(a.rec, Last(pool), fields)

\* C18: allocRocket, allocParticle and allocSmoke return a new record with the
\* default values when the pool is empty, and otherwise the record released
\* last with the field values it had at its release
C18_AcquireAsReleased ==
    /\ AsReleased(allocRocket(State), rocketPool, newRocket(0), RocketFields)
    /\ allocRocket(State).s.rocketPool = SubSeq(rocketPool, 1, Len(rocketPool) - 1)
    /\ AsReleased(allocParticle(State), particlePool, baseParticle(0), ParticleFields)
    /\ allocParticle(State).s.particlePool
           = SubSeq(particlePool, 1, Len(particlePool) - 1)
    /\ AsReleased(allocSmoke(State), smokePool, newSmoke(0), SmokeFields)
    /\ allocSmoke(State).s.smokePool = SubSeq(smokePool, 1, Len(smokePool) - 1)

\* A handler has put a record off a pool into a live list, and the next record
\* each pool would hand out holds other values than a new one
C18_Witness ==
    /\ \/ \E i \in 1..Len(created.rockets) : created.rockets[i].reused
       \/ \E j \in 1..Len(created.particles) : created.particles[j].reused
       \/ \E k \in 1..Len(created.smoke) : created.smoke[k].reused
    /\ rocketPool # << >> /\ particlePool # << >> /\ smokePool # << >>
    /\ ~SameValues(allocRocket(State).rec, newRocket(0), RocketFields)
    /\ ~SameValues(allocParticle(State).rec, baseParticle(0), ParticleFields)
    /\ ~SameValues(allocSmoke(State).rec, newSmoke(0), SmokeFields)
\* C19 as stated: the rockets never outnumber maxRocketsCap(), which is
\* BASE_MAX_ROCKETS at quality 1.0 and 1 at the lowest quality
C19_RocketCapAdapts ==
    /\ Len(rockets) <= maxRocketsCap(quality)
    /\ quality = MAX_QUALITY => maxRocketsCap(quality) = BASE_MAX_ROCKETS
    /\ quality = MIN_QUALITY => maxRocketsCap(quality) = 1
\* The eighth of a turn the velocity of the particle p points to
Heading(p) ==
    CASE p.vx > 0 /\ p.vy = 0 -> 0
      [] p.vx > 0 /\ p.vy > 0 -> 1
      [] p.vx = 0 /\ p.vy > 0 -> 2
      [] p.vx < 0 /\ p.vy > 0 -> 3
      [] p.vx < 0 /\ p.vy = 0 -> 4
      [] p.vx < 0 /\ p.vy < 0 -> 5
      [] p.vx = 0 /\ p.vy < 0 -> 6
      [] OTHER -> 7

\* The eighths of a turn within the largest jitter (0.18 rad) of particle i of n
\* evenly spaced, the first at angle 0
EvenHeadings(i, n) ==
    { Octant(((i - 1) * 6283) \div n + 6283 + j) : j \in -180..180 }

\* C20: a ring burst that admits n particles sends particle i, within the
\* jitter, to i/n of a full turn, so that from 16 particles on every eighth of
\* the circle gets some
C20_RingEvenlySpaced ==
    [][ created'.bursts = << "ring" >>
          => /\ \A i \in 1..Len(created'.particles) :
                   Heading(created'.particles[i])
                      \in EvenHeadings(i, Len(created'.particles))
             /\ Len(created'.particles) >= 16
                   => { Heading(created'.particles[i]) :
                          i \in 1..Len(created'.particles) } = 0..7 ]_vars

\* A ring burst found particles live and room for 16 or more
C20_Witness ==
    /\ created.bursts = << "ring" >>
    /\ Len(created.particles) >= 16
    /\ Len(created.particles) < Len(particles)
\* The timer of a delayed secondary break is pending
SubBurstPending == \E i \in 1..Len(timers) : timers[i].fn = "subBurst"

\* C23 as stated, where the room is largest: in a running show an explodeBurst
\* that finds no particle live and draws below the chance of a break has room
\* for more than 24 particles after its pattern and schedules the timer of the
\* delayed secondary break
C23_BreakScheduledWithRoom ==
    [][ ( /\ running' /\ op' \in {"burst", "timer"}
          /\ Len(created'.bursts) = 1
          /\ particles = << >>
          /\ Roll(rng).brk = 0 )
            => SubBurstPending' ]_vars

\* No handler leaves room for more than 24 particles after an explodeBurst, or
\* schedules the timer of the secondary break
C23_BreakNeverScheduled ==
    [][ /\ created'.bursts # << >>
              => maxParticlesCap(quality') - Len(particles') <= 24
        /\ ~SubBurstPending' ]_vars
\* C24: a timer that fires while the show is not running (paused or stopped)
\* adds nothing to the live lists
C24_NoTimerEntitiesWhileIdle ==
    [][ (op' = "timer" /\ ~running)
            => /\ particles' = particles
               /\ smokePuffs' = smokePuffs
               /\ rockets' = rockets ]_vars
\* C25: from stop() to the next start() the show is not running, whatever
\* focus, pageshow and visibilitychange events and resume() calls come
C25_StoppedUntilStart == hist.stopped => ~running
FlightRocketLive == \E i \in 1..Len(rockets) : rockets[i].born <= 600 + 33 * FlightFrames

\* The bloom recorded as site is the one of the rocket r, moved by dt ms: at
\* its place, in its hue and pattern, entered with r in the pool and out of
\* the live list
BurstOf(site, r, dt) ==
    /\ site.x = moveRocket(r, dt).x /\ site.y = moveRocket(r, dt).y
    /\ site.hue = r.hue /\ site.kind = r.kind
    /\ r.id \in site.pooled /\ r.id \notin site.flying

\* C27: while the show runs and frames come, every rocket in flight leaves the
\* live list in the end; in a frame every explodeBurst is the one of a rocket
\* that was in flight, at that rocket's position with its hue and kind, run
\* when the rocket is already in the pool and out of the live list, and no
\* rocket has two of them
C27_RocketsLandInPool ==
    /\ FlightRocketLive ~> ~FlightRocketLive
    /\ [][ op' = "frame"
            => /\ \A k \in 1..Len(created'.sites) :
                     \E i \in 1..Len(rockets) :
                         BurstOf(created'.sites[k], rockets[i], lastDt')
               /\ \A i \in 1..Len(rockets) :
                     Cardinality({ k \in 1..Len(created'.sites) :
                                     BurstOf(created'.sites[k], rockets[i], lastDt') }) <= 1
               /\ \A i \in 1..Len(rockets) :
                     (\A j \in 1..Len(rockets') : rockets'[j].id # rockets[i].id)
                        => \E j \in 1..Len(rocketPool') :
                              rocketPool'[j].id = rockets[i].id ]_vars

\* A frame in which a rocket detonated, after which no rocket of the flight is
\* left in the air
C27_Witness ==
    /\ op = "frame" /\ lastDt > 0
    /\ created.sites # << >>
    /\ ~FlightRocketLive

\* The life of the record p is running: positive and not above maxLife
LifeRunning(p) == 0 < p.life /\ p.life <= p.maxLife

\* The particle record id is live with at most 8 units of life left, less than
\* any particle is made with
Fading(id) ==
    \E i \in 1..Len(particles) : particles[i].id = id /\ particles[i].life <= 8000

\* The ticks that 8 units of life last at the most, at 8 ms a tick
FadingTicks == 8000 \div (60 * 8) + 1

\* The record p left the particle loop for the pool: its life was used up or
\* it was out of the margins
Released(p, left) ==
    /\ p.life = left
    /\ \/ p.life <= 0
       \/ p.x < -160 \/ p.x > w + 160
       \/ p.y > h + 220

\* C28: between ticks every live particle and smoke puff has 0 < life <=
\* maxLife; a tick of dt takes 60*dt off the life of every particle and
\* releases to the pool, in the same tick, the ones whose life is used up or
\* that are out of the margins (a micro-spark may take the record over at
\* once); with frames coming a particle that is fading leaves the live list
C28_LifeRunsOut ==
    /\ [](/\ \A i \in 1..Len(particles) : LifeRunning(particles[i])
          /\ \A i \in 1..Len(smokePuffs) : LifeRunning(smokePuffs[i]))
    /\ [][ op' = "frame"
            => \A i \in 1..Len(particles) :
                 IF \E j \in 1..Len(particles') :
                        /\ particles'[j].id = particles[i].id
                        /\ particles'[j].life = particles[i].life - 60 * lastDt'
                 THEN particles[i].life - 60 * lastDt' > 0
                 ELSE \/ \E j \in 1..Len(particlePool') :
                            /\ particlePool'[j].id = particles[i].id
                            /\ Released(particlePool'[j],
                                        particles[i].life - 60 * lastDt')
                      \/ \E j \in 1..Len(particles') :
                            /\ particles'[j].id = particles[i].id
                            /\ particles'[j].reused
                            /\ particles'[j].life = particles'[j].maxLife ]_vars
    /\ \A id \in 1..BASE_MAX_PARTICLES :
          (Fading(id) /\ nTicks <= AscentTicks - FadingTicks) ~> ~Fading(id)

\* A tick of positive dt has released a particle whose life was used up, and
\* particles with life left are still in the air
C28_Witness ==
    /\ op = "frame" /\ lastDt > 0
    /\ particles # << >>
    /\ \E j \in 1..Len(particlePool) :
          particlePool[j].life <= 0 /\ particlePool[j].life > - 60 * lastDt

\* C29: a crackle particle pushes micro-sparks in a tick only with its timer
\* down to zero and more than 6 places of room; it then pushes at most 2
\* particles, all sparks, the live count is within the capacity and its timer
\* is set anew to a positive value; with 6 places or less it pushes nothing
\* and its timer keeps running down
C29_CrackleNeedsRoom ==
    [][ \A n \in 1..Len(created'.crackles) :
          LET c == created'.crackles[n]
          IN  /\ Len(c.sparks) > 0 => (c.timer <= 0 /\ c.room > 6)
              /\ (c.timer <= 0 /\ c.room > 6)
                    => /\ Len(c.sparks) <= 2
                       /\ \A k \in 1..Len(c.sparks) : c.sparks[k] = "spark"
                       /\ c.over <= 0
                       /\ c.after > 0
              /\ c.room <= 6 => (c.sparks = << >> /\ c.after = c.timer) ]_vars

\* In one tick a crackle particle has pushed sparks and another, its timer
\* run down, has found 6 places or less
C29_Witness ==
    /\ op = "frame"
    /\ \E n \in 1..Len(created.crackles) : created.crackles[n].sparks # << >>
    /\ \E n \in 1..Len(created.crackles) :
          created.crackles[n].timer <= 0 /\ created.crackles[n].room <= 6

\* C30 as stated: in every state smokePuffs.length is at most maxSmokeCap() at
\* the current quality
C30_SmokeWithinCap == Len(smokePuffs) <= maxSmokeCap(quality)

\* C30, amended: a handler in which smokePuffs.length grew leaves it at most
\* maxSmokeCap() at the quality it leaves, and the length never exceeds
\* BASE_MAX_SMOKE; an api.burst() that finds the list full leaves the list
\* and the pool as they are; the puffs of a handler are at most one for each
\* explodeBurst, and one more in a timer, for the secondary break
C30_SmokeGrowthWithinCap ==
    [][ /\ Len(smokePuffs') > Len(smokePuffs)
            => Len(smokePuffs') <= maxSmokeCap(quality')
        /\ Len(smokePuffs') <= BASE_MAX_SMOKE
        /\ (op' = "burst" /\ Len(smokePuffs) >= maxSmokeCap(quality))
            => (smokePuffs' = smokePuffs /\ smokePool' = smokePool)
        /\ Len(created'.smoke)
              <= Len(created'.bursts) + (IF op' = "timer" THEN 1 ELSE 0) ]_vars

\* An api.burst() has run its explodeBurst() with the smoke list full and a
\* record in the pool, and has added no puff
C30_Witness ==
    /\ op = "burst"
    /\ created.bursts # << >> /\ created.smoke = << >>
    /\ rng \in {NextSeed(0), NextSeed(3)}
    /\ Len(smokePuffs) = maxSmokeCap(quality)
    /\ smokePool # << >>

\* The markup has both story photos, each with a source
BothPhotos ==
    /\ page.loaded.markup.brideImg.present /\ page.loaded.markup.groomImg.present
    /\ page.loaded.markup.brideImg.src # "" /\ page.loaded.markup.groomImg.src # ""

\* C21: after init(), whatever language changes came, the bride's photo
\* element has the source the markup gave the groom's and the other way round
C21_PhotosSwappedOnce ==
    (page.ready /\ BothPhotos)
        => /\ page.brideImg.src = page.loaded.markup.groomImg.src
           /\ page.groomImg.src = page.loaded.markup.brideImg.src

\* The overlay, the card and the seal were found
OverlayFound == page.els.overlay /\ page.els.inviteCard /\ page.els.sealBtn

\* C22: state.entered is false when the script has run, whatever localStorage
\* holds; from init() on, with overlay, card and seal found, the overlay is
\* shown and the body locked as long as entered is false; the seal's click
\* sets entered, hides the overlay and unlocks the body, and entered is never
\* false again
C22_OverlayUntilSeal ==
    /\ [](/\ ~page.ready => ~page.state.entered
          /\ (page.ready /\ OverlayFound /\ ~page.state.entered)
                => /\ ~page.overlay.hidden /\ page.overlay.ariaHidden = "false"
                   /\ page.body.locked
                   /\ "sealBtn" \in page.listening
          /\ (page.state.entered /\ OverlayFound)
                => /\ page.overlay.hidden /\ page.overlay.ariaHidden = "true"
                   /\ ~page.body.locked)
    /\ [][ /\ page.state.entered => page'.state.entered
           /\ op' = "seal" => page'.state.entered
           /\ (~page.state.entered /\ page'.state.entered) => op' = "seal" ]_vars

\* The seal was clicked on a page loaded with wedding_entered stored as "1"
\* and an overlay that the markup had hidden, and a language change followed
C22_Witness ==
    /\ page.state.entered
    /\ op = "lang"
    /\ OverlayFound
    /\ page.loaded.storage.entered = "1"
    /\ page.loaded.markup.overlayHidden

\* C31: of two ticks in a row that find the quality below 0.92 one runs the
\* smoke pass and the other does not; a tick that finds the quality at 0.92 or
\* above runs it
C31_SmokeEveryOtherTick ==
    /\ \A i \in 1..Len(hist.smokeTicks) :
          ~hist.smokeTicks[i].half => hist.smokeTicks[i].ran
    /\ (Len(hist.smokeTicks) = 2 /\ hist.smokeTicks[1].half /\ hist.smokeTicks[2].half)
          => hist.smokeTicks[1].ran # hist.smokeTicks[2].ran

\* Two ticks in a row have found the quality below 0.92: the first skipped
\* the smoke pass and the second ran it, with smoke in the air
C31_Witness ==
    /\ op = "frame"
    /\ Len(hist.smokeTicks) = 2
    /\ hist.smokeTicks[1].half /\ hist.smokeTicks[2].half
    /\ ~hist.smokeTicks[1].ran /\ hist.smokeTicks[2].ran
    /\ smokePuffs # << >>
    /\ quality < 9200

\* C32: a tick of dt takes 60*dt off the life of every smoke puff that stays
\* live, whatever the quality
C32_SmokeLifeRunsWithTime ==
    [][ op' = "frame"
          => \A i \in 1..Len(smokePuffs), j \in 1..Len(smokePuffs') :
                (/\ smokePuffs'[j].id = smokePuffs[i].id
                 /\ \A k \in 1..Len(created'.smoke) :
                       created'.smoke[k].id # smokePuffs[i].id)
                   => smokePuffs'[j].life = smokePuffs[i].life - 60 * lastDt' ]_vars

\* C33: a run of autoLaunch that launches comes more than the launch spacing,
\* base / launchQualityFactor() (at least 1050 ms on a desktop width, 1600 ms
\* on a narrow one), after lastLaunch, which is then the time of the launch
\* before or of a later start() or resume(); it adds at most two rockets, up
\* to the rocket cap, and none only with the rockets at the cap
C33_LaunchesApart ==
    [][ /\ Len(created'.launches) <= 1
        /\ \A n \in 1..Len(created'.launches) :
              LET l == created'.launches[n]
              IN  /\ l.last = lastLaunch /\ l.prev = hist.launchedAt
                  /\ l.at = now' /\ hist'.launchedAt = l.at /\ lastLaunch' = l.at
                  /\ l.at - l.last > l.base
                  /\ l.base >= (IF l.narrow THEN AUTO_BASE_MOBILE ELSE AUTO_BASE_DESKTOP)
                  /\ l.after - l.before \in 0..2
                  /\ l.after <= l.cap
                  /\ l.after = l.before => (l.before >= l.cap \/ w' < 10 \/ h' < 10)
        /\ hist'.launchedAt # null => lastLaunch' >= hist'.launchedAt
        /\ (running' /\ hist'.startedAt # null) => lastLaunch' >= hist'.startedAt
        /\ (running' /\ hist'.resumedAt # null) => lastLaunch' >= hist'.resumedAt ]_vars

\* autoLaunch has launched for the second time in a row, with no start() or
\* resume() since the launch before, and has added a rocket
C33_Witness ==
    /\ op = "frame"
    /\ Len(created.launches) = 1
    /\ created.launches[1].prev # null
    /\ created.launches[1].prev = created.launches[1].last
    /\ created.launches[1].after > created.launches[1].before

\* C34: whatever the quality has been, there are never more than
\* BASE_MAX_PARTICLES (50) live particles, BASE_MAX_ROCKETS (2) live rockets
\* and BASE_MAX_SMOKE (28) live smoke puffs
C34_WithinBaseCaps ==
    /\ Len(particles) <= BASE_MAX_PARTICLES
    /\ Len(rockets) <= BASE_MAX_ROCKETS
    /\ Len(smokePuffs) <= BASE_MAX_SMOKE

\* After a frame the rockets and the particles are at their base caps, the
\* quality has dropped, and smoke is live
C34_Witness ==
    /\ op = "frame"
    /\ Len(rockets) = BASE_MAX_ROCKETS
    /\ Len(particles) = BASE_MAX_PARTICLES
    /\ Len(smokePuffs) > 0
    /\ quality < MAX_QUALITY

\* C35: with n >= 1 images in the viewer, after any previous, next, arrow-key
\* or thumbnail action galleryIndex is in 0..n-1; next (click or ArrowRight)
\* from n-1 goes to 0 and otherwise one up, previous (click or ArrowLeft) from
\* 0 goes to n-1 and otherwise one down, a thumbnail goes to its own index,
\* next followed by previous returns to the index before, and the thumbnail
\* at galleryIndex is the only one marked active
C35_GalleryIndexWraps ==
    LET g == page.gallery
        n == g.images
        i == page.state.galleryIndex
        Forth(a) == IF a = n - 1 THEN 0 ELSE a + 1
        Back(a) == IF a = 0 THEN n - 1 ELSE a - 1
    IN  (g.trail # << >> /\ n >= 1) =>
          /\ i \in 0..(n - 1)
          /\ g.active = {i} /\ g.thumbs = n /\ g.shown = i
          /\ Last(g.trail).by \in {"next", "right"} => i = Forth(Last(g.trail).from)
          /\ Last(g.trail).by \in {"prev", "left"} => i = Back(Last(g.trail).from)
          /\ Last(g.trail).by = "thumb" => i = Last(g.trail).idx
          /\ (/\ Len(g.trail) = 2
              /\ g.trail[1].by \in {"next", "right"}
              /\ g.trail[2].by \in {"prev", "left"}) => i = g.trail[1].from

\* Previous has wrapped from the first image to the last of several, right
\* after next had wrapped from the last to the first
C35_Witness ==
    /\ page.gallery.images > 2
    /\ Len(page.gallery.trail) = 2
    /\ page.gallery.trail[1].by = "next"
    /\ page.gallery.trail[1].from = page.gallery.images - 1
    /\ page.gallery.trail[2].by = "prev"
    /\ page.gallery.trail[2].from = 0
    /\ page.state.galleryIndex = page.gallery.images - 1

RsvpLoading == page.rsvp.disabled \/ page.rsvp.ariaBusy = "true"

\* C36: a submission that passed the validation ends, and when its handler
\* finishes the loading state is cleared (button enabled, aria-busy "false"):
\* after an ok response the status is rsvpSent and the form is reset, after
\* another response or a rejected fetch the status is rsvpFailed and the
\* fields are as they were
C36_SubmissionEnds ==
    /\ [][ op' = "settle" =>
             /\ ~page'.rsvp.disabled /\ page'.rsvp.ariaBusy = "false"
             /\ Len(page'.rsvp.inFlight) = Len(page.rsvp.inFlight) - 1
             /\ \/ /\ page'.rsvp.status.key = "status.rsvpSent"
                   /\ page'.rsvp.fields = page.rsvp.defaults
                \/ /\ page'.rsvp.status.key = "status.rsvpFailed"
                   /\ page'.rsvp.fields = page.rsvp.fields ]_vars
    /\ (page.rsvp.inFlight # << >>) ~> (page.rsvp.inFlight = << >> /\ ~RsvpLoading)

\* A request has failed and left the form as it was filled in, not busy
C36_Witness ==
    /\ op = "settle"
    /\ page.rsvp.status.key = "status.rsvpFailed"
    /\ page.rsvp.fields.name # << >>
    /\ page.rsvp.els.rsvpSubmitBtn /\ ~page.rsvp.disabled
    /\ page.rsvp.ariaBusy = "false"
    /\ page.rsvp.inFlight = << >>

Blank(v) == \A i \in 1..Len(v) : v[i] = " "

\* C37: a submission with a name or an attendance that is empty once trimmed
\* sends no request and leaves the loading state, the status text and the
\* fields as they were
C37_BlankSubmissionIgnored ==
    [][ (/\ op' = "submit"
         /\ \/ ~page.rsvp.els.rsvpName \/ Blank(page.rsvp.fields.name)
            \/ ~page.rsvp.els.rsvpAttend \/ Blank(page.rsvp.fields.attending))
        => /\ page'.rsvp.sent = page.rsvp.sent
           /\ page'.rsvp.inFlight = page.rsvp.inFlight
           /\ page'.rsvp.mailed = page.rsvp.mailed /\ page'.rsvp.saved = page.rsvp.saved
           /\ page'.rsvp.disabled = page.rsvp.disabled
           /\ page'.rsvp.ariaBusy = page.rsvp.ariaBusy
           /\ page'.rsvp.status = page.rsvp.status
           /\ page'.rsvp.fields = page.rsvp.fields ]_vars

\* A form with a name of spaces, or with a name and an attendance of spaces,
\* was submitted: nothing was sent and nothing shows
C37_Witness ==
    /\ op = "submit"
    /\ page.ready
    /\ page.rsvp.els.rsvpName
    /\ \/ page.rsvp.fields.name = << " " >> /\ page.rsvp.fields.attending = << "yes" >>
       \/ page.rsvp.fields.name = << "A" >> /\ page.rsvp.fields.attending = << " " >>
    /\ page.rsvp.sent = 0
    /\ page.rsvp.status.key = ""
    /\ page.rsvp.ariaBusy = "none" /\ ~page.rsvp.disabled

\* C38: play() has been requested on the audio element only on a page that
\* has been entered by a click on the seal
C38_NoMusicBeforeSeal ==
    page.bgMusic.played => page.state.entered

LangChanged == op' \in {"lang", "setLang"}

OtherLang(l) == IF l = "vi" THEN "en" ELSE "vi"

\* state.lang is "vi" or "en", "vi" for any other stored or requested value;
\* a click on the language toggle switches to the other language, so that
\* two clicks restore it; a language change leaves the lang attribute of the
\* document element equal to state.lang
LangKept ==
    /\ page'.state.lang \in {"vi", "en"}
    /\ (~page.ready /\ created.asked = "none")
          => page.state.lang = (IF page.loaded.storage.lang \in {"vi", "en"}
                                THEN page.loaded.storage.lang ELSE "vi")
    /\ op' = "lang" => /\ page'.state.lang = OtherLang(page.state.lang)
                       /\ OtherLang(page'.state.lang) = page.state.lang
    /\ op' = "setLang" =>
          page'.state.lang = (IF created'.asked = "en" THEN "en" ELSE "vi")
    /\ LangChanged => page'.html.lang = page'.state.lang

\* C39, as stated: LangKept, and after every language change the persisted
\* wedding_lang equals state.lang
C39_LangPersisted ==
    [][ /\ LangKept
        /\ LangChanged => page'.storage.lang = page'.state.lang ]_vars

\* C39, amended: LangKept, and after every language change the persisted
\* wedding_lang equals state.lang where localStorage has taken the write
C39_LangPersistedWhenWritable ==
    [][ /\ LangKept
        /\ (LangChanged /\ page.writable) => page'.storage.lang = page'.state.lang
        /\ (LangChanged /\ ~page.writable) => page'.storage.lang = page.storage.lang ]_vars

\* The toggle has switched a page loaded with another language ("fr") stored
\* from "vi" to "en", and the storage has taken "en"
C39_Witness ==
    /\ op = "lang"
    /\ page.loaded.storage.lang = "fr"
    /\ page.state.lang = "en" /\ page.html.lang = "en"
    /\ page.writable /\ page.storage.lang = "en"

\* The number a box of the countdown shows
RECURSIVE Shown(_)
Shown(text) == IF text = << >> THEN 0 ELSE Shown(Front(text)) * 10 + Last(text)

\* The instant n whole seconds after t
SecondsAfter(t, n) == [s |-> t.s + n, ms |-> t.ms]

\* C40: after every tick the four boxes show numbers that are not negative,
\* with hours < 24, minutes < 60 and seconds < 60, and that add up to the
\* whole seconds left from the time of the tick to the wedding date; at and
\* after the wedding date all four show 0, on every tick
C40_CountdownAddsUp ==
    LET c == page.countdown
        days == Shown(c.text.days)
        hours == Shown(c.text.hours)
        mins == Shown(c.text.mins)
        secs == Shown(c.text.secs)
        left == days * 86400 + hours * 3600 + mins * 60 + secs
    IN  c.ticks > 0 =>
          /\ \A b \in DOMAIN c.text :
                Len(c.text[b]) >= 2 /\ \A i \in 1..Len(c.text[b]) : c.text[b][i] \in 0..9
          /\ days >= 0 /\ hours \in 0..23 /\ mins \in 0..59 /\ secs \in 0..59
          /\ Earlier(c.at, WEDDING_DATE) =>
                /\ ~Earlier(WEDDING_DATE, SecondsAfter(c.at, left))
                /\ Earlier(WEDDING_DATE, SecondsAfter(c.at, left + 1))
          /\ ~Earlier(c.at, WEDDING_DATE) => left = 0 /\ days = 0

\* The countdown started more than an hour before the wedding date, has run
\* past it, and shows four zeros on a tick after the first that did
C40_Witness ==
    /\ op = "tick"
    /\ page.countdown.ticks >= 3
    /\ Earlier(Later(page.countdown.from, 3600000), WEDDING_DATE)
    /\ Earlier(WEDDING_DATE, page.countdown.at)
    /\ page.countdown.text = [days |-> << 0, 0 >>, hours |-> << 0, 0 >>,
                              mins |-> << 0, 0 >>, secs |-> << 0, 0 >>]
====
